---------------------------- MODULE Spec2Model ----------------------------
(***************************************************************************)
(* Cache readers and configuration snapshot of the Mantaflow fluid bridge  *)
(* (intern/mantaflow/intern/MANTA_main.cpp).                               *)
(*                                                                         *)
(* A cache file is a stream of 4-byte words.  gzread(gzf, buf, n) delivers *)
(* the next n words of the stream, fewer at the end of the stream, and     *)
(* gzclose() reports Z_OK or an error; both belong to the file.  Floats    *)
(* and ints are the same words: the readers copy bit patterns.             *)
(*                                                                         *)
(* An operation ends with exit "return" and the value ret, with "crash"    *)
(* (a null pointer was dereferenced) or with "throw" (std::out_of_range    *)
(* left the function); ret means nothing unless the exit is "return".      *)
(***************************************************************************)
EXTENDS Integers, Sequences, FiniteSets, TLC

(***************************************************************************)
(* Bounds of the model.                                                    *)
(***************************************************************************)
\* largest extent of the simulation domain along one axis
MaxRes == 2

\* largest record count in the header of a particle snapshot
MaxParticles == 5

\* records per chunk; the source reads 20000 (PARTICLE_CHUNK, NODE_CHUNK,
\* TRIANGLE_CHUNK), scaled down so that a few records span several chunks
PARTICLE_CHUNK == 2

\* significand bits of a float (24 in the build), scaled down with the chunk
\* so that record counts beyond the exactly representable ones are reached
FLT_MANT_DIG == 2

\* mesh nodes and mesh triangles per chunk (20000 in the source)
NODE_CHUNK == 2

TRIANGLE_CHUNK == 2

\* largest vertex, normal and triangle count of a mesh file
MaxMesh == 3

\* frames of the cache
MaxFrame == 2

\* calls in a row on the configuration of the domain
MaxCalls == 3

\* threads that call the bridge
MaxThreads == 2

\* calls of the bridge the threads make in all
MaxPyCalls == 2

\* characters of a script line
MaxLine == 5

\* faces of a base mesh
MaxFaces == 2

\* vertices of the mesh at the reshape level
MaxVerts == 3

VARIABLES
  call,        \* the operation executed last, with its inputs and its result
  pre,         \* the destinations as they were when that operation started
  mRes,        \* <<mResX, mResY, mResZ>>
  mResNoise,   \* <<mResXNoise, mResYNoise, mResZNoise>>
  mNull,       \* the members that hold a null pointer
  mGrids,      \* the float grids of the solver, by member name
  mParts,      \* the particle vectors of the solver, by member name
  mMesh,       \* the mesh vectors of the solver, by member name
  mUsing,      \* the features in use: the mUsing* flags that are true
  mFromFile,   \* mFlipFromFile, mMeshFromFile, ... by member name
  mds,         \* mmd->domain, the settings of the fluid domain
  disk,        \* the configuration files of the cache, by frame
  ndebug,      \* the build has no assertions (NDEBUG)
  py,          \* the embedded interpreter: its lock and the threads calling it
  script,      \* the script text parsed or exported last, with its inputs
  reshape,     \* the multires reshape context and the call made on it last
  solverID,    \* MANTA::solverID, the counter the instances share
  instances    \* the MANTA instances of the process and the threads making them

vars == <<call, pre, mRes, mResNoise, mNull, mGrids, mParts, mMesh, mUsing,
          mFromFile, mds, disk, ndebug, py, script, reshape, solverID, instances>>

\* the solver and its cache
solverVars == <<call, pre, mRes, mResNoise, mNull, mGrids, mParts, mMesh, mUsing,
                mFromFile, mds, disk>>

\* the element of a set of one element.  The({e(x) : x \in {v}}) is e(v)
\* with v evaluated once, however often e refers to it
The(S) == CHOOSE v \in S : TRUE

Min(a, b) == IF a < b THEN a ELSE b

Max(a, b) == IF a < b THEN b ELSE a

RECURSIVE Pow2(_)
Pow2(k) == IF k = 0 THEN 1 ELSE 2 * Pow2(k - 1)

\* words firstWord+1, firstWord+2, ... : a payload whose words all differ
Ramp(firstWord, n) == [i \in 1..n |-> firstWord + i]

Fill(word, n) == [i \in 1..n |-> word]

\* a file that cannot be opened
NoFile == [open |-> FALSE]

(***************************************************************************)
(* zlib stream.                                                            *)
(***************************************************************************)
\* the words gzread stores for a request of n words at offset pos
GzData(stream, pos, n) == SubSeq(stream, pos + 1, Min(pos + n, Len(stream)))

\* the value gzread returns: the amount read, 0 at the end of the stream,
\* negative when nothing could be read because the stream is damaged
GzRet(stream, tail, pos, n) ==
  LET got == Len(GzData(stream, pos, n))
  IN IF got = 0 /\ n > 0 /\ tail = "error" THEN -1 ELSE got

\* buf after gzread stored data at its start
Store(buf, data) ==
  [i \in 1..Len(buf) |-> IF i <= Len(data) THEN data[i] ELSE buf[i]]

\* std::vector::resize: keeps the leading elements, value-initialises new ones
Resize(v, n, zero) == [i \in 1..n |-> IF i <= Len(v) THEN v[i] ELSE zero]

CLAMP(a, b, c) == IF a < b THEN b ELSE IF a > c THEN c ELSE a

(***************************************************************************)
(* float arithmetic: a value is <<num, den>> with den a power of two.      *)
(***************************************************************************)
\* least e >= 0 with a / b < 2^(FLT_MANT_DIG + e)
RECURSIVE ExpUp(_, _, _)
ExpUp(a, b, e) ==
  IF a >= b * Pow2(FLT_MANT_DIG + e) THEN ExpUp(a, b, e + 1) ELSE e

\* least s >= 0 with a * 2^s / b >= 2^(FLT_MANT_DIG - 1)
RECURSIVE ExpDown(_, _, _)
ExpDown(a, b, s) ==
  IF a * Pow2(s) < b * Pow2(FLT_MANT_DIG - 1) THEN ExpDown(a, b, s + 1) ELSE s

\* a / b (a >= 0, b > 0) rounded to FLT_MANT_DIG significant bits, to nearest,
\* ties to the even significand
RoundToFloat(a, b) ==
  IF a = 0 THEN <<0, 1>>
  ELSE LET e == ExpUp(a, b, 0)
           s == ExpDown(a, b, 0)
           num == a * Pow2(s)
           den == b * Pow2(e)
           fl == num \div den
           r == num % den
           m == IF 2 * r > den \/ (2 * r = den /\ fl % 2 = 1) THEN fl + 1 ELSE fl
       IN <<m * Pow2(e), Pow2(s)>>

FloatDiv(x, y) == RoundToFloat(x[1] * y[2], x[2] * y[1])

ceil(x) == (x[1] + x[2] - 1) \div x[2]

\* (int)(ceil((float)n / chunk))
NumChunks(n, chunk) ==
  ceil(FloatDiv(RoundToFloat(n, 1), RoundToFloat(chunk, 1)))

(***************************************************************************)
(* The chunk loop of the particle and mesh readers.  rd is the request:    *)
(* stream and tail of the file, num records of recWords words each, read   *)
(* chunk records at a time into a vector of size elements.  st is the      *)
(* loop state: pos the offset in the stream, todo the records left, buf    *)
(* the chunk buffer, log the writes <<index, record>> made so far, short   *)
(* whether a gzread delivered less than it was asked for.                  *)
(***************************************************************************)
BufRecord(buf, k, recWords) == SubSeq(buf, k * recWords + 1, (k + 1) * recWords)

ReadLen(todo, chunk) == IF todo < chunk THEN todo ELSE chunk

ReadStart(num, todo) == CLAMP(num - todo, 0, num)

RECURSIVE ReadChunks(_, _, _)
ReadChunks(rd, i, st) ==
  IF ~(i < rd.numChunks /\ st.todo > 0) THEN st
  ELSE
    LET readLen == ReadLen(st.todo, rd.chunk)
        want == readLen * rd.recWords
        readBytes == GzRet(rd.stream, rd.tail, st.pos, want)
        data == GzData(rd.stream, st.pos, want)
        buf == Store(st.buf, data)
        readStart == ReadStart(rd.num, st.todo)
        readEnd == CLAMP(readStart + readLen, 0, rd.num)
        inRange == Min(readEnd, Max(rd.size, readStart))
        writes == [k \in 1..(inRange - readStart) |->
                     <<readStart + k - 1, BufRecord(buf, k - 1, rd.recWords)>>]
    IN IF readBytes = 0
       THEN [st EXCEPT !.status = "fail", !.short = TRUE]
       ELSE IF readEnd > rd.size /\ readEnd > readStart
       THEN [st EXCEPT !.status = "out_of_range", !.pos = st.pos + Len(data),
                       !.buf = buf, !.log = st.log \o writes,
                       !.short = st.short \/ Len(data) < want]
       ELSE The({ReadChunks(rd, i + 1, next) :
                   next \in {[pos |-> st.pos + Len(data),
                              todo |-> st.todo - readLen, buf |-> buf,
                              log |-> st.log \o writes, status |-> "ok",
                              short |-> st.short \/ Len(data) < want]}})

\* the loop started on a fresh chunk buffer (uninitialised memory: junk)
ChunkedRead(stream, tail, pos, num, numChunks, chunk, recWords, size, junk) ==
  The({ReadChunks(rd, 0, st) :
         rd \in {[stream |-> stream, tail |-> tail, num |-> num,
                  numChunks |-> numChunks, chunk |-> chunk,
                  recWords |-> recWords, size |-> size]},
         st \in {[pos |-> pos, todo |-> num, buf |-> Fill(junk, chunk * recWords),
                  log |-> <<>>, status |-> "ok", short |-> FALSE]}})

\* the records the log wrote to index j (0-based), in the order written
RECURSIVE WritesTo(_, _)
WritesTo(log, j) ==
  IF log = <<>> THEN <<>>
  ELSE LET rest == WritesTo(Tail(log), j)
       IN IF Head(log)[1] = j THEN <<Head(log)[2]>> \o rest ELSE rest

Last(s) == s[Len(s)]

(***************************************************************************)
(* Dense grid snapshot (.uni).                                             *)
(***************************************************************************)
GridMagics == {"MNT3", "MNT2", "MNT1", "DDF2", "XXXX", ""}

Cells(dim) == dim[1] * dim[2] * dim[3]

Dims == [1..3 -> 1..MaxRes]

\* magic "" is a file without a single byte; a header cut short leaves
\* arbitrary values in the header fields, which dim ranges over
GridFiles ==
  [open : {TRUE}, magic : GridMagics, dim : Dims, closeOK : BOOLEAN,
   payload : {Ramp(b, k) : b \in {10, 20}, k \in 0..(MaxRes * MaxRes + 1)}]

GridDeprecatedWrong(magic) == magic \in {"DDF2", "MNT1"}

GridDeprecated(magic) == magic \in {"DDF2", "MNT1", "MNT2"}

GridDimMismatchWrong(dim, res) ==
  dim[1] # res[1] /\ dim[2] # res[2] /\ dim[3] # res[3]

GridDimMismatch(dim, res) ==
  dim[1] # res[1] \/ dim[2] # res[2] \/ dim[3] # res[3]

GridPayloadWrong(f, grid) ==
  IF f.magic = "MNT3"
  THEN Store(grid, GzData(f.payload, 1, Cells(f.dim)))
  ELSE grid

GridPayload(f, grid) ==
  IF f.magic = "MNT3"
  THEN Store(grid, GzData(f.payload, 0, Cells(f.dim)))
  ELSE grid

updateGridFromUni(f, grid, isNoise) ==
  LET res == IF isNoise THEN mResNoise ELSE mRes
      unread == [exit |-> "return", ret |-> FALSE, grid |-> grid]
  IN IF ~f.open THEN unread
     ELSE IF f.magic = "" THEN unread
     ELSE IF GridDeprecated(f.magic) THEN unread
     ELSE IF GridDimMismatch(f.dim, res) THEN unread
     ELSE [exit |-> "return", ret |-> f.closeOK, grid |-> GridPayload(f, grid)]

(***************************************************************************)
(* Particle snapshot (.uni).                                               *)
(***************************************************************************)
ParticleMagics == {"PB02", "PD01", "PB01", "XXXX", ""}

\* sizeof(float) * 3 + sizeof(int)
partSysSize == 3 * 4 + 4

ParticleHeaders ==
  { [bytesPerElement |-> 16, elementType |-> 0],
    [bytesPerElement |-> 12, elementType |-> 1],
    [bytesPerElement |-> 12, elementType |-> 0] }

ParticleFiles ==
  [open : {TRUE}, magic : ParticleMagics, n : 0..MaxParticles,
   hdr : ParticleHeaders, tail : {"eof", "error"}, closeOK : BOOLEAN,
   payload : {Ramp(10, k) : k \in 0..(4 * MaxParticles)}]

\* what malloc'ed memory may hold
JunkWords == {0, 9}

ParticleNames == {"mFlipParticleData", "mFlipParticleVelocity",
                  "mSndParticleData", "mSndParticleVelocity",
                  "mSndParticleLife"}

ParticleDeprecated(magic) == magic = "PB01"

ParticleHeaderInvalid(hdr) ==
  ~(hdr.bytesPerElement = partSysSize) /\ hdr.elementType = 0

dataPointer(isSecondarySys) ==
  IF isSecondarySys THEN "mSndParticleData" ELSE "mFlipParticleData"

velocityPointer(isSecondarySys) ==
  IF isSecondarySys THEN "mSndParticleVelocity" ELSE "mFlipParticleVelocity"

lifePointer(isSecondarySys) ==
  IF isSecondarySys THEN "mSndParticleLife" ELSE "nullptr"

\* the branch of the reader a file takes, and the vector that branch fills
ParticleBranch(magic, isVelData) ==
  IF magic = "PB02" THEN "data"
  ELSE IF magic = "PD01" /\ isVelData THEN "velocity"
  ELSE IF magic = "PD01" THEN "life"
  ELSE "none"

ParticleTarget(branch, isSecondarySys) ==
  CASE branch = "data" -> dataPointer(isSecondarySys)
    [] branch = "velocity" -> velocityPointer(isSecondarySys)
    [] branch = "life" -> lifePointer(isSecondarySys)
    [] OTHER -> "nullptr"

\* sizeof(pData), sizeof(pVel), sizeof(float) in words
RecWords(branch) ==
  CASE branch = "data" -> 4 [] branch = "velocity" -> 3 [] OTHER -> 1

\* a value-initialised element
ZeroElem(branch) ==
  CASE branch = "data" -> [pos |-> <<0, 0, 0>>, flag |-> 0]
    [] branch = "velocity" -> [pos |-> <<0, 0, 0>>]
    [] OTHER -> 0

\* a value-initialised Node
ZeroNode == [pos |-> <<0, 0, 0>>, normal |-> <<0, 0, 0>>]

\* the element the copy loop makes of element old and one record of the
\* chunk buffer
ElemOf(branch, old, r) ==
  CASE branch = "data" -> [pos |-> SubSeq(r, 1, 3), flag |-> r[4]]
    [] branch = "velocity" -> [pos |-> r]
    [] branch = "life" -> r[1]
    [] branch = "pos" -> [old EXCEPT !.pos = r]
    [] branch = "normal" -> [old EXCEPT !.normal = r]
    [] branch = "triangle" -> [c |-> r]

\* the vector after the writes of the log, each an assignment to at(j)
ApplyLog(v, log, branch) ==
  [j \in 1..Len(v) |->
     IF WritesTo(log, j - 1) = <<>> THEN v[j]
     ELSE ElemOf(branch, v[j], Last(WritesTo(log, j - 1)))]

IsNull(ptr) == ptr = "nullptr" \/ ptr \in mNull

ParticleNumChunks(n) == NumChunks(n, PARTICLE_CHUNK)

NoParticlesReturnWrong == FALSE

\* "if (!ibuffer[0]) { ... return true; }": no particles is no error
NoParticlesReturn == TRUE

updateParticlesFromUni(f, parts, isSecondarySys, isVelData, junk) ==
  LET same(r) == [exit |-> "return", ret |-> r, parts |-> parts, log |-> <<>>,
                  short |-> FALSE]
      branch == ParticleBranch(f.magic, isVelData)
      target == ParticleTarget(branch, isSecondarySys)
      sized == Resize(parts[target], f.n, ZeroElem(branch))
      done(rd) ==
        [exit |-> "return", ret |-> rd.status # "fail" /\ f.closeOK,
         parts |-> [parts EXCEPT ![target] = ApplyLog(sized, rd.log, branch)],
         log |-> rd.log, short |-> rd.short]
  IN IF ~f.open THEN same(FALSE)
     ELSE IF f.magic = "" THEN same(FALSE)
     ELSE IF ParticleDeprecated(f.magic) THEN same(FALSE)
     ELSE IF ParticleHeaderInvalid(f.hdr) THEN same(FALSE)
     ELSE IF f.n = 0 THEN same(NoParticlesReturn)
     ELSE IF branch = "none" THEN same(f.closeOK)
     ELSE IF IsNull(target) THEN [same(FALSE) EXCEPT !.exit = "crash"]
     ELSE The({done(rd) :
                 rd \in {ChunkedRead(f.payload, f.tail, 0, f.n,
                                     ParticleNumChunks(f.n), PARTICLE_CHUNK,
                                     RecWords(branch), f.n, junk)}})

(***************************************************************************)
(* Compressed binary mesh (.bobj.gz): vertex count and vertices, normal    *)
(* count and normals, triangle count and triangles.                        *)
(***************************************************************************)
MeshNames == {"mMeshNodes", "mMeshTriangles", "mMeshVelocities"}

\* the stream a writer makes of v vertices, m normals and t triangles
EncodeMesh(v, m, t, b) ==
  <<v>> \o Ramp(b, 3 * v) \o <<m>> \o Ramp(b + 3 * v, 3 * m)
        \o <<t>> \o Ramp(b + 3 * v + 3 * m, 3 * t)

\* record j (0-based) of the three arrays of that stream
MeshVertex(b, j) == Ramp(b + 3 * j, 3)

MeshNormal(v, b, j) == Ramp(b + 3 * v + 3 * j, 3)

MeshTriangle(v, m, b, j) == Ramp(b + 3 * v + 3 * m + 3 * j, 3)

\* the files: what a writer encoded, and how much of it is in the file
MeshFile(v, m, t, b, k, tail, ok) ==
  [open |-> TRUE, v |-> v, m |-> m, t |-> t, b |-> b, tail |-> tail,
   closeOK |-> ok, stream |-> SubSeq(EncodeMesh(v, m, t, b), 1, k)]

MeshCuts(v, m, t, b) ==
  { MeshFile(v, m, t, b, k, tail, ok) :
      tail \in {"eof", "error"}, ok \in BOOLEAN,
      k \in 0..(3 + 3 * (v + m + t)) }

MeshFiles ==
  UNION { MeshCuts(v, m, t, b) :
            v \in 0..MaxMesh, m \in 0..MaxMesh, t \in 0..MaxMesh, b \in {0} }

\* gzread(gzf, &numBuffer, sizeof(int)): numBuffer keeps its value when
\* nothing is read
ReadCount(f, pos, numBuffer) ==
  IF GzRet(f.stream, f.tail, pos, 1) > 0 THEN f.stream[pos + 1] ELSE numBuffer

getNumVertices(nodes) == Len(nodes)

\* numChunks is not computed again for the normals
NormalNumChunks(numVertices, numNormals) == NumChunks(numVertices, NODE_CHUNK)

\* the count of an array: numBuffer keeps the previous count when the read
\* stores nothing
MeshCount(f, pos, numBuffer) ==
  The({[readBytes |-> readBytes, num |-> ReadCount(f, pos, numBuffer),
        pos |-> IF readBytes > 0 THEN pos + 1 ELSE pos] :
         readBytes \in {GzRet(f.stream, f.tail, pos, 1)}})

\* the records of an array of c.num elements, read in chunks into a vector
\* of size elements ("if (numBuffer) { ... }")
MeshArray(f, c, numChunks, chunk, size, junk) ==
  The({[readBytes |-> c.readBytes, num |-> c.num, log |-> rd.log,
        status |-> IF c.num # 0 THEN rd.status ELSE "ok",
        short |-> c.num # 0 /\ rd.short,
        pos |-> IF c.num # 0 THEN rd.pos ELSE c.pos] :
         rd \in {ChunkedRead(f.stream, f.tail, c.pos, c.num, numChunks, chunk,
                             3, size, junk)}})

\* the vertex block
MeshVertices(f, mesh, junk) ==
  The({[a EXCEPT !.log = <<>>] @@
       [mesh |-> IF a.num # 0
                 THEN [mesh EXCEPT !.mMeshNodes =
                         ApplyLog(Resize(@, a.num, ZeroNode), a.log, "pos")]
                 ELSE mesh] :
         a \in {The({MeshArray(f, c, NumChunks(c.num, NODE_CHUNK), NODE_CHUNK,
                               c.num, junk) :
                       c \in {MeshCount(f, 0, 0)}})}})

\* the normal block: the vector is resized only when it has no vertices
MeshNormals(f, v, junk) ==
  The({[a EXCEPT !.log = <<>>, !.short = v.short \/ a.short] @@
       [mesh |-> IF a.num # 0
                 THEN [v.mesh EXCEPT !.mMeshNodes =
                         ApplyLog(IF getNumVertices(@) = 0
                                  THEN Resize(@, a.num, ZeroNode) ELSE @,
                                  a.log, "normal")]
                 ELSE v.mesh] :
         a \in {The({MeshArray(f, c, NormalNumChunks(v.num, c.num), NODE_CHUNK,
                               IF getNumVertices(v.mesh.mMeshNodes) = 0
                               THEN c.num ELSE Len(v.mesh.mMeshNodes),
                               junk) :
                       c \in {MeshCount(f, v.pos, v.num)}})}})

\* the triangle block
MeshTriangles(f, n, junk) ==
  The({[a EXCEPT !.log = <<>>, !.short = n.short \/ a.short] @@
       [mesh |-> IF a.num # 0
                 THEN [n.mesh EXCEPT !.mMeshTriangles =
                         ApplyLog(Resize(@, a.num, [c |-> <<0, 0, 0>>]),
                                  a.log, "triangle")]
                 ELSE n.mesh] :
         a \in {The({MeshArray(f, c, NumChunks(c.num, TRIANGLE_CHUNK),
                               TRIANGLE_CHUNK, c.num, junk) :
                       c \in {MeshCount(f, n.pos, n.num)}})}})

updateMeshFromBobj(f, mesh, junk) ==
  LET out(x, r, b) == [exit |-> x, ret |-> r, mesh |-> b.mesh, short |-> b.short]
      triangles(n, t) ==
        IF t.readBytes = 0 THEN out("return", FALSE, n)
        ELSE IF t.status = "fail" THEN out("return", FALSE, t)
        ELSE out("return", f.closeOK, t)
      normals(v, n) ==
        IF n.readBytes = 0 THEN out("return", FALSE, v)
        ELSE IF n.status = "fail" THEN out("return", FALSE, n)
        ELSE IF n.status = "out_of_range" THEN out("throw", FALSE, n)
        ELSE The({triangles(n, t) : t \in {MeshTriangles(f, n, junk)}})
      vertices(v) ==
        IF v.readBytes = 0 THEN out("return", FALSE, [mesh |-> mesh, short |-> FALSE])
        ELSE IF v.status = "fail" THEN out("return", FALSE, v)
        ELSE The({normals(v, n) : n \in {MeshNormals(f, v, junk)}})
  IN IF ~f.open THEN out("return", FALSE, [mesh |-> mesh, short |-> FALSE])
     ELSE The({vertices(v) : v \in {MeshVertices(f, mesh, junk)}})

(***************************************************************************)
(* Raw grid dump (.raw): the cells and nothing else.                       *)
(***************************************************************************)
\* assert(expectedBytes == readBytes): aborts the process in a build with
\* assertions, is no code at all under NDEBUG
updateGridFromRaw(f, grid, isNoise) ==
  LET res == IF isNoise THEN mResNoise ELSE mRes
      expectedBytes == Cells(res)
      readBytes == GzRet(f.payload, f.tail, 0, expectedBytes)
      filled == Store(grid, GzData(f.payload, 0, expectedBytes))
  IN IF ~f.open THEN [exit |-> "return", ret |-> FALSE, grid |-> grid]
     ELSE IF readBytes = 0 THEN [exit |-> "return", ret |-> FALSE, grid |-> filled]
     ELSE IF ~ndebug /\ expectedBytes # readBytes
     THEN [exit |-> "abort", ret |-> FALSE, grid |-> filled]
     ELSE [exit |-> "return", ret |-> f.closeOK, grid |-> filled]

(***************************************************************************)
(* Mesh velocities (.uni, magic MD01) and text meshes (.obj).              *)
(***************************************************************************)
meshSize == 3 * 4 + 4

MeshHeaderInvalid(hdr) ==
  ~(hdr.bytesPerElement = meshSize) /\ hdr.elementType = 0

\* the element loop of the MD01 branch: fbuffer keeps what the last gzread
\* stored (nothing of it is checked)
RECURSIVE ReadMeshVelocities(_, _, _, _)
ReadMeshVelocities(f, i, fbuffer, vel) ==
  IF i > Len(vel) THEN vel
  ELSE The({The({ReadMeshVelocities(f, i + 1, buf, next) :
                    next \in {[vel EXCEPT ![i] = [pos |-> buf]]}}) :
              buf \in {Store(fbuffer, GzData(f.payload, 3 * (i - 1), 3))}})

updateMeshFromUni(f, mesh, junk) ==
  LET same(x, r) == [exit |-> x, ret |-> r, mesh |-> mesh, short |-> FALSE]
      sized == Resize(mesh.mMeshVelocities, f.n, [pos |-> <<0, 0, 0>>])
      read == ReadMeshVelocities(f, 1, Fill(junk, 3), sized)
  IN IF ~f.open THEN same("return", FALSE)
     ELSE IF f.magic = "" THEN same("return", FALSE)
     ELSE IF MeshHeaderInvalid(f.hdr) THEN same("return", FALSE)
     ELSE IF f.n = 0 THEN same("return", FALSE)
     ELSE IF f.magic = "MB01" THEN same("return", f.closeOK)
     ELSE IF f.magic = "MD01"
     THEN IF "mMeshVelocities" \in mNull THEN same("crash", FALSE)
          ELSE [exit |-> "return", ret |-> f.closeOK,
                mesh |-> [mesh EXCEPT !.mMeshVelocities = read],
                short |-> Len(f.payload) < 3 * f.n]
     ELSE same("return", f.closeOK)

\* an .obj file as its lines: the id and the three numbers that follow it
ObjLine(id, x) == [id |-> id, v |-> x]

\* the line loop; a Node pushed for a "v" line has an uninitialised normal
RECURSIVE ReadObjLines(_, _, _, _, _)
ReadObjLines(lines, mesh, cntVerts, cntNormals, junk) ==
  IF lines = <<>> THEN [exit |-> "return", ret |-> TRUE, mesh |-> mesh]
  ELSE
    LET l == Head(lines)
        nodes == mesh.mMeshNodes
        continue(next, verts, normals) ==
          The({ReadObjLines(rest, m, v, n, junk) :
                 rest \in {Tail(lines)}, m \in {next}, v \in {verts},
                 n \in {normals}})
    IN IF l.id = "vn"
       THEN IF getNumVertices(nodes) # cntVerts
            THEN [exit |-> "return", ret |-> FALSE, mesh |-> mesh]
            ELSE IF cntNormals >= Len(nodes)
            THEN [exit |-> "throw", ret |-> FALSE, mesh |-> mesh]
            ELSE continue([mesh EXCEPT !.mMeshNodes[cntNormals + 1].normal = l.v],
                          cntVerts, cntNormals + 1)
       ELSE IF l.id = "v"
       THEN continue([mesh EXCEPT !.mMeshNodes =
                        Append(nodes, [pos |-> l.v, normal |-> Fill(junk, 3)])],
                     cntVerts + 1, cntNormals)
       ELSE IF l.id = "f"
       THEN IF \E i \in 1..3 : l.v[i] - 1 < 0
            THEN [exit |-> "return", ret |-> FALSE, mesh |-> mesh]
            ELSE continue([mesh EXCEPT !.mMeshTriangles =
                             Append(mesh.mMeshTriangles,
                                    [c |-> [i \in 1..3 |-> l.v[i] - 1]])],
                          cntVerts, cntNormals)
       ELSE continue(mesh, cntVerts, cntNormals)

updateMeshFromObj(f, mesh, junk) ==
  IF ~f.open THEN [exit |-> "return", ret |-> FALSE, mesh |-> mesh, short |-> FALSE]
  ELSE The({[exit |-> r.exit, ret |-> r.ret, mesh |-> r.mesh, short |-> FALSE] :
              r \in {ReadObjLines(f.lines, mesh, 0, 0, junk)}})

(***************************************************************************)
(* File names and the dispatch on their extension.  A name is a sequence   *)
(* of pieces, each one a dot or a text without a dot.                      *)
(***************************************************************************)
getCacheFileEnding(cache_format) ==
  CASE cache_format = "FLUID_DOMAIN_FILE_UNI" -> <<".", "uni">>
    [] cache_format = "FLUID_DOMAIN_FILE_OPENVDB" -> <<".", "vdb">>
    [] cache_format = "FLUID_DOMAIN_FILE_RAW" -> <<".", "raw">>
    [] cache_format = "FLUID_DOMAIN_FILE_BIN_OBJECT" -> <<".", "bobj", ".", "gz">>
    [] cache_format = "FLUID_DOMAIN_FILE_OBJECT" -> <<".", "obj">>
    [] OTHER -> <<".", "uni">>

\* fname + extension, the frame number already part of fname
getFile(fname, extension) == <<fname>> \o extension

\* std::string::rfind('.') as a 1-based position, 0 for npos
rfind(fname) ==
  LET dots == {i \in 1..Len(fname) : fname[i] = "."}
  IN IF dots = {} THEN 0 ELSE CHOOSE i \in dots : \A k \in dots : k <= i

\* fname.substr(idx + 1)
Extension(fname) == SubSeq(fname, rfind(fname) + 1, Len(fname))

ReadResult(exit, ret, w, short) ==
  [exit |-> exit, ret |-> ret, w |-> w, short |-> short]

updateMeshFromFileWrong(filename, f, w, junk) ==
  LET extension == Extension(filename)
      lift(r) == ReadResult(r.exit, r.ret, [w EXCEPT !.mesh = r.mesh], r.short)
  IN IF rfind(filename) = 0 THEN ReadResult("return", FALSE, w, FALSE)
     ELSE IF extension = <<"gz">>
     THEN The({lift(r) : r \in {updateMeshFromBobj(f, w.mesh, junk)}})
     ELSE IF extension = <<"obj">>
     THEN The({lift(r) : r \in {updateMeshFromObj(f, w.mesh, junk)}})
     ELSE ReadResult("return", FALSE, w, FALSE)

updateMeshFromFile(filename, f, w, junk) ==
  LET extension == Extension(filename)
      lift(r) == ReadResult(r.exit, r.ret, [w EXCEPT !.mesh = r.mesh], r.short)
  IN IF rfind(filename) = 0 THEN ReadResult("return", FALSE, w, FALSE)
     ELSE IF extension = <<"gz">>
     THEN The({lift(r) : r \in {updateMeshFromBobj(f, w.mesh, junk)}})
     ELSE IF extension = <<"obj">>
     THEN The({lift(r) : r \in {updateMeshFromObj(f, w.mesh, junk)}})
     ELSE IF extension = <<"uni">>
     THEN The({lift(r) : r \in {updateMeshFromUni(f, w.mesh, junk)}})
     ELSE ReadResult("return", FALSE, w, FALSE)

updateParticlesFromFile(filename, f, w, isSecondarySys, isVelData, junk) ==
  LET extension == Extension(filename)
      lift(r) == ReadResult(r.exit, r.ret, [w EXCEPT !.parts = r.parts], r.short)
  IN IF rfind(filename) = 0 THEN ReadResult("return", FALSE, w, FALSE)
     ELSE IF extension = <<"uni">>
     THEN The({lift(r) :
                 r \in {updateParticlesFromUni(f, w.parts, isSecondarySys,
                                               isVelData, junk)}})
     ELSE ReadResult("return", FALSE, w, FALSE)

\* a build without OpenVDB (OPENVDB is not 1): "vdb" is no known extension
updateGridFromFile(filename, f, w, g, isNoise) ==
  LET extension == Extension(filename)
      lift(r) == ReadResult(r.exit, r.ret, [w EXCEPT !.grids[g] = r.grid], FALSE)
  IN IF g \in mNull THEN ReadResult("return", FALSE, w, FALSE)
     ELSE IF rfind(filename) = 0 THEN ReadResult("return", FALSE, w, FALSE)
     ELSE IF extension = <<"uni">>
     THEN The({lift(r) : r \in {updateGridFromUni(f, w.grids[g], isNoise)}})
     ELSE IF extension = <<"raw">>
     THEN The({lift(r) : r \in {updateGridFromRaw(f, w.grids[g], isNoise)}})
     ELSE ReadResult("return", FALSE, w, FALSE)

(***************************************************************************)
(* State.                                                                  *)
(***************************************************************************)
BaseGrids == {"mDensity", "mShadow", "mHeat", "mColorR", "mColorG", "mColorB",
              "mFlame", "mFuel", "mReact"}

HighGrids == {"mDensityHigh", "mColorRHigh", "mColorGHigh", "mColorBHigh",
              "mFlameHigh", "mFuelHigh", "mReactHigh"}

GridNames == BaseGrids \cup HighGrids

GridRes(g) == IF g \in HighGrids THEN mResNoise ELSE mRes

\* data of the previous frame
OldGrid(n) == Fill(7, n)

OldParts ==
  [p \in ParticleNames |->
     IF p \in {"mFlipParticleData", "mSndParticleData"}
     THEN << [pos |-> <<7, 7, 7>>, flag |-> 7], [pos |-> <<8, 8, 8>>, flag |-> 8] >>
     ELSE IF p = "mSndParticleLife" THEN <<7, 8>>
     ELSE << [pos |-> <<7, 7, 7>>], [pos |-> <<8, 8, 8>>] >>]

OldMesh ==
  [mMeshNodes |-> << [pos |-> <<7, 7, 7>>, normal |-> <<7, 7, 7>>],
                     [pos |-> <<8, 8, 8>>, normal |-> <<8, 8, 8>>] >>,
   mMeshTriangles |-> << [c |-> <<7, 7, 7>>] >>,
   mMeshVelocities |-> << [pos |-> <<7, 7, 7>>], [pos |-> <<8, 8, 8>>] >>]

\* the mesh vectors after the clear() that precedes every read
NoMesh == [p \in MeshNames |-> <<>>]

Snapshot == [grids |-> mGrids, parts |-> mParts, mesh |-> mMesh]

\* the members updatePointers sets for the features in use
PointersOf(using) ==
  UNION {
    IF "smoke" \in using THEN {"mDensity", "mShadow"} ELSE {},
    IF {"smoke", "heat"} \subseteq using THEN {"mHeat"} ELSE {},
    IF {"smoke", "fire"} \subseteq using THEN {"mFlame", "mFuel", "mReact"} ELSE {},
    IF {"smoke", "colors"} \subseteq using
    THEN {"mColorR", "mColorG", "mColorB"} ELSE {},
    IF {"smoke", "noise"} \subseteq using THEN {"mDensityHigh"} ELSE {},
    IF {"smoke", "noise", "fire"} \subseteq using
    THEN {"mFlameHigh", "mFuelHigh", "mReactHigh"} ELSE {},
    IF {"smoke", "noise", "colors"} \subseteq using
    THEN {"mColorRHigh", "mColorGHigh", "mColorBHigh"} ELSE {},
    IF "liquid" \in using
    THEN {"mFlipParticleData", "mFlipParticleVelocity"} ELSE {},
    IF {"liquid", "mesh"} \subseteq using
    THEN {"mMeshNodes", "mMeshTriangles"} ELSE {},
    IF {"liquid", "mvel"} \subseteq using THEN {"mMeshVelocities"} ELSE {},
    IF "liquid" \in using
       /\ using \cap {"drops", "bubbles", "floats", "tracers"} # {}
    THEN {"mSndParticleData", "mSndParticleVelocity", "mSndParticleLife"}
    ELSE {} }

Frames == 1..MaxFrame

AllPointers == GridNames \cup ParticleNames \cup MeshNames

FromFileFlags == {"mFlipFromFile", "mMeshFromFile", "mParticlesFromFile",
                  "mSmokeFromFile", "mNoiseFromFile"}

\* the fields of mmd->domain that a configuration file stores, each one a
\* sequence of 4-byte words numbered from firstWord, and total_cells
DomainFields(firstWord) ==
  [active_fields |-> <<firstWord>>,
   res |-> <<firstWord + 1, 2, 3>>,
   dx |-> <<firstWord + 2>>,
   dt |-> <<firstWord + 3>>,
   p0 |-> Ramp(firstWord + 3, 3),
   p1 |-> Ramp(firstWord + 6, 3),
   dp0 |-> Ramp(firstWord + 9, 3),
   shift |-> Ramp(firstWord + 12, 3),
   obj_shift_f |-> Ramp(firstWord + 15, 3),
   obmat |-> Ramp(firstWord + 18, 16),
   base_res |-> Ramp(firstWord + 34, 3),
   res_min |-> Ramp(firstWord + 37, 3),
   res_max |-> Ramp(firstWord + 40, 3),
   active_color |-> Ramp(firstWord + 43, 3),
   total_cells |-> (firstWord + 1) * 2 * 3]

CacheSettings(dir, particle, mesh, data, noise) ==
  [cache_directory |-> dir, cache_particle_format |-> particle,
   cache_mesh_format |-> mesh, cache_data_format |-> data,
   cache_noise_format |-> noise]

\* record a extended by the fields of record b
Merge(a, b) ==
  [k \in DOMAIN a \cup DOMAIN b |-> IF k \in DOMAIN b THEN b[k] ELSE a[k]]

AbsoluteDir == <<"/", "c", "a", "c", "h", "e">>

RelativeDir == <<"/", "/", "c", "a", "c", "h", "e">>

DefaultCache ==
  CacheSettings(AbsoluteDir, "FLUID_DOMAIN_FILE_UNI", "FLUID_DOMAIN_FILE_BIN_OBJECT",
                "FLUID_DOMAIN_FILE_UNI", "FLUID_DOMAIN_FILE_UNI")

\* nothing parsed or exported yet
NoScript == [op |-> "none"]

\* no reshape context created yet
NoContext == [op |-> "none"]

Threads == 1..MaxThreads

\* no instance was constructed, no thread is in a constructor
NoInstances ==
  [made |-> <<>>, pc |-> [t \in Threads |-> "idle"], mCurrentID |-> [t \in Threads |-> 0]]

\* no thread is in the bridge, the lock is free (gil = 0)
PyInit ==
  [gil |-> 0, aborted |-> FALSE,
   pc |-> [t \in Threads |-> "idle"],
   frame |-> [t \in Threads |-> [op |-> "none"]],
   last |-> [op |-> "none"], calls |-> 0]

\* the solver constructed for a domain with the features `made', the init
\* calls for the features `late' made afterwards
InitSolver(made, late) ==
  /\ mRes = <<MaxRes, 1, 1>>
  /\ mResNoise = <<MaxRes, MaxRes, 1>>
  /\ mUsing = made \cup late
  /\ mNull = AllPointers \ PointersOf(made)
  /\ mGrids = [g \in GridNames |-> OldGrid(Cells(GridRes(g)))]
  /\ mFromFile = [m \in FromFileFlags |-> FALSE]
  /\ disk = [framenr \in Frames |-> NoFile]
  /\ call = [op |-> "none", nr |-> 0]

\* a gas domain and a liquid domain with every optional feature
SmokeFeatures == {"smoke", "heat", "fire", "colors", "noise"}

LiquidFeatures == {"liquid", "mesh", "mvel", "drops", "bubbles", "floats", "tracers"}

\* the readers are called on a solver that has the destination; the
\* particle vectors hold what an earlier read of the frame left, the mesh
\* vectors are cleared
Init ==
  /\ \E made \in {SmokeFeatures, LiquidFeatures} : InitSolver(made, {})
  /\ mParts = OldParts
  /\ mMesh = NoMesh
  /\ mds = Merge(DomainFields(100), DefaultCache)
  /\ ndebug = TRUE
  /\ pre = Snapshot
  /\ py = PyInit
  /\ script = NoScript
  /\ reshape = NoContext
  /\ solverID = 0
  /\ instances = NoInstances

\* the grid readers are called with isNoise exactly for the noise grids
UpdateGridFromUni ==
  /\ call.op = "none"
  /\ \E f \in GridFiles \cup {NoFile}, g \in {"mDensity", "mDensityHigh"} \ mNull :
       \E r \in {updateGridFromUni(f, mGrids[g], g \in HighGrids)} :
          /\ mGrids' = [mGrids EXCEPT ![g] = r.grid]
          /\ call' = [op |-> "updateGridFromUni", file |-> f, grid |-> g,
                      isNoise |-> (g \in HighGrids), exit |-> r.exit,
                      ret |-> r.ret]
  /\ pre' = Snapshot
  /\ UNCHANGED <<mRes, mResNoise, mNull, mParts, mMesh, mUsing, mFromFile,
               mds, disk, ndebug, py, script, reshape, solverID, instances>>

UpdateParticlesFromUni ==
  /\ call.op = "none"
  /\ "mFlipParticleData" \notin mNull
  /\ \E f \in ParticleFiles \cup {NoFile}, isSecondarySys \in BOOLEAN,
        isVelData \in BOOLEAN, junk \in JunkWords :
       \E r \in {updateParticlesFromUni(f, mParts, isSecondarySys, isVelData, junk)} :
          /\ mParts' = r.parts
          /\ call' = [op |-> "updateParticlesFromUni", file |-> f,
                      isSecondarySys |-> isSecondarySys,
                      isVelData |-> isVelData, exit |-> r.exit,
                      ret |-> r.ret, log |-> r.log, short |-> r.short]
  /\ pre' = Snapshot
  /\ UNCHANGED <<mRes, mResNoise, mNull, mGrids, mMesh, mUsing, mFromFile,
               mds, disk, ndebug, py, script, reshape, solverID, instances>>

UpdateMeshFromBobj ==
  /\ call.op = "none"
  /\ "mMeshNodes" \notin mNull
  /\ \E f \in MeshFiles \cup {NoFile}, junk \in JunkWords :
       \E r \in {updateMeshFromBobj(f, mMesh, junk)} :
          /\ mMesh' = r.mesh
          /\ call' = [op |-> "updateMeshFromBobj", file |-> f, exit |-> r.exit,
                      ret |-> r.ret, short |-> r.short]
  /\ pre' = Snapshot
  /\ UNCHANGED <<mRes, mResNoise, mNull, mGrids, mParts, mUsing, mFromFile,
               mds, disk, ndebug, py, script, reshape, solverID, instances>>

\* the grid and the particle reader, each called once on a solver that holds
\* the data of the previous frame
Next ==
  \/ UpdateGridFromUni
  \/ UpdateParticlesFromUni

Spec == Init /\ [][Next]_vars

\* the mesh reader, called once on the cleared mesh vectors
NextMesh == UpdateMeshFromBobj

SpecMesh == Init /\ [][NextMesh]_vars

(***************************************************************************)
(* update*Structures: the cache files of one frame are probed and read.    *)
(***************************************************************************)
\* BLI_path_is_rel: the path starts with two slashes
BLI_path_is_rel(path) == Len(path) >= 2 /\ path[1] = "/" /\ path[2] = "/"

BLI_exists(f) == f.open

ParticleSlot(fname, extension, isSecondarySys, isVelData) ==
  [kind |-> "particles", file |-> getFile(fname, extension),
   isSecondarySys |-> isSecondarySys, isVelData |-> isVelData]

MeshSlot(fname, extension) == [kind |-> "mesh", file |-> getFile(fname, extension)]

GridSlot(fname, extension, grid, isNoise) ==
  [kind |-> "grid", file |-> getFile(fname, extension), grid |-> grid,
   isNoise |-> isNoise]

FlipSlots ==
  LET pformat == getCacheFileEnding(mds.cache_particle_format)
  IN << ParticleSlot("FLUID_DOMAIN_FILE_PP", pformat, FALSE, FALSE),
        ParticleSlot("FLUID_DOMAIN_FILE_PVEL", pformat, FALSE, TRUE) >>

MeshSlots ==
  LET mformat == getCacheFileEnding(mds.cache_mesh_format)
      dformat == getCacheFileEnding(mds.cache_data_format)
  IN << MeshSlot("FLUID_DOMAIN_FILE_MESH", mformat) >>
     \o (IF "mvel" \in mUsing
         THEN << MeshSlot("FLUID_DOMAIN_FILE_MESHVEL", dformat) >> ELSE <<>>)

SndSlots ==
  LET pformat == getCacheFileEnding(mds.cache_particle_format)
  IN << ParticleSlot("FLUID_DOMAIN_FILE_PPSND", pformat, TRUE, FALSE),
        ParticleSlot("FLUID_DOMAIN_FILE_PVELSND", pformat, TRUE, TRUE),
        ParticleSlot("FLUID_DOMAIN_FILE_PLIFESND", pformat, TRUE, FALSE) >>

SmokeSlots ==
  LET dformat == getCacheFileEnding(mds.cache_data_format)
      slot(fname, grid) == GridSlot(fname, dformat, grid, FALSE)
  IN << slot("FLUID_DOMAIN_FILE_DENSITY", "mDensity"),
        slot("FLUID_DOMAIN_FILE_SHADOW", "mShadow") >>
     \o (IF "heat" \in mUsing
         THEN << slot("FLUID_DOMAIN_FILE_HEAT", "mHeat") >> ELSE <<>>)
     \o (IF "colors" \in mUsing
         THEN << slot("FLUID_DOMAIN_FILE_COLORR", "mColorR"),
                 slot("FLUID_DOMAIN_FILE_COLORG", "mColorG"),
                 slot("FLUID_DOMAIN_FILE_COLORB", "mColorB") >>
         ELSE <<>>)
     \o (IF "fire" \in mUsing
         THEN << slot("FLUID_DOMAIN_FILE_FLAME", "mFlame"),
                 slot("FLUID_DOMAIN_FILE_FUEL", "mFuel"),
                 slot("FLUID_DOMAIN_FILE_REACT", "mReact") >>
         ELSE <<>>)

NoiseSlots ==
  LET dformat == getCacheFileEnding(mds.cache_data_format)
      nformat == getCacheFileEnding(mds.cache_noise_format)
      slot(fname, grid) == GridSlot(fname, nformat, grid, TRUE)
  IN << slot("FLUID_DOMAIN_FILE_DENSITYNOISE", "mDensityHigh"),
        GridSlot("FLUID_DOMAIN_FILE_SHADOW", dformat, "mShadow", FALSE) >>
     \o (IF "colors" \in mUsing
         THEN << slot("FLUID_DOMAIN_FILE_COLORRNOISE", "mColorRHigh"),
                 slot("FLUID_DOMAIN_FILE_COLORGNOISE", "mColorGHigh"),
                 slot("FLUID_DOMAIN_FILE_COLORBNOISE", "mColorBHigh") >>
         ELSE <<>>)
     \o (IF "fire" \in mUsing
         THEN << slot("FLUID_DOMAIN_FILE_FLAMENOISE", "mFlameHigh"),
                 slot("FLUID_DOMAIN_FILE_FUELNOISE", "mFuelHigh"),
                 slot("FLUID_DOMAIN_FILE_REACTNOISE", "mReactHigh") >>
         ELSE <<>>)

SlotExpectedWrong(expected, exists) == IF exists THEN expected + 1 ELSE expected

\* expected += 1, before the file is probed
SlotExpected(expected, exists) == expected + 1

\* one block "expected += 1; if (BLI_exists(file)) { result += update...;
\* assert(result == expected); }".  The assertion aborts the process in a
\* build with assertions.
ReadSlot(slot, f, st, junk) ==
  LET exists == BLI_exists(f)
      expected == SlotExpected(st.expected, exists)
      probe(x, r) == [slot |-> slot, f |-> f, exists |-> exists, read |-> exists,
                      exit |-> x, ret |-> r, asserted |-> FALSE]
      block(r) ==
        LET result == st.result + (IF r.ret THEN 1 ELSE 0)
        IN IF r.exit # "return"
           THEN [st EXCEPT !.expected = expected, !.w = r.w, !.exit = r.exit,
                           !.reads = Append(@, probe(r.exit, FALSE))]
           ELSE IF ~ndebug /\ result # expected
           THEN [st EXCEPT !.expected = expected, !.result = result, !.w = r.w,
                           !.exit = "abort",
                           !.reads = Append(@, [probe("return", r.ret)
                                                  EXCEPT !.asserted = TRUE])]
           ELSE [st EXCEPT !.expected = expected, !.result = result, !.w = r.w,
                           !.reads = Append(@, probe("return", r.ret))]
  IN IF ~exists
     THEN [st EXCEPT !.expected = expected,
                     !.reads = Append(@, probe("return", FALSE))]
     ELSE The({block(r) :
                 r \in {CASE slot.kind = "particles" ->
                               updateParticlesFromFile(slot.file, f, st.w,
                                                       slot.isSecondarySys,
                                                       slot.isVelData, junk)
                          [] slot.kind = "mesh" ->
                               updateMeshFromFile(slot.file, f, st.w, junk)
                          [] slot.kind = "grid" ->
                               updateGridFromFile(slot.file, f, st.w, slot.grid,
                                                  slot.isNoise)}})

RECURSIVE ReadSlots(_, _, _, _, _)
ReadSlots(slots, files, i, st, junk) ==
  IF i > Len(slots) \/ st.exit # "return" THEN st
  ELSE The({ReadSlots(slots, files, i + 1, next, junk) :
              next \in {ReadSlot(slots[i], files[i], st, junk)}})

\* the call ended before anything was cleared or probed
EarlyExit(w) ==
  [exit |-> "return", ret |-> FALSE, fromFile |-> FALSE, w |-> w, early |-> TRUE,
   reads |-> <<>>, result |-> 0, expected |-> 0]

\* the blocks of the files, then "return m...FromFile = (result == expected)"
ReadStructures(slots, files, cleared, junk) ==
  LET done(st) ==
        LET ok == st.exit = "return" /\ st.result = st.expected
        IN [exit |-> st.exit, ret |-> ok, fromFile |-> ok, w |-> st.w,
            early |-> FALSE, reads |-> st.reads, result |-> st.result,
            expected |-> st.expected]
  IN The({done(st) :
            st \in {The({ReadSlots(s, fs, 1, st0, junk) :
                           s \in {slots}, fs \in {files},
                           st0 \in {[w |-> cleared, result |-> 0,
                                     expected |-> 0, exit |-> "return",
                                     reads |-> <<>>]}})}})

FlipEarly ==
  \/ "liquid" \notin mUsing
  \/ BLI_path_is_rel(mds.cache_directory)
  \/ "mFlipParticleData" \in mNull \/ "mFlipParticleVelocity" \in mNull

updateFlipStructuresWrong(files, w, junk) ==
  IF FlipEarly THEN EarlyExit(w)
  ELSE ReadStructures(FlipSlots, files,
         [w EXCEPT !.parts.mFlipParticleData = <<>>], junk)

\* mFlipParticleData->clear(); mFlipParticleVelocity->clear(); then the files
updateFlipStructures(files, w, junk) ==
  IF FlipEarly THEN EarlyExit(w)
  ELSE ReadStructures(FlipSlots, files,
         [w EXCEPT !.parts.mFlipParticleData = <<>>,
                   !.parts.mFlipParticleVelocity = <<>>], junk)

MeshEarly ==
  \/ "mesh" \notin mUsing
  \/ BLI_path_is_rel(mds.cache_directory)
  \/ "mMeshNodes" \in mNull \/ "mMeshTriangles" \in mNull

updateMeshStructures(files, w, junk) ==
  IF MeshEarly THEN EarlyExit(w)
  ELSE ReadStructures(MeshSlots, files,
         [w EXCEPT !.mesh.mMeshNodes = <<>>, !.mesh.mMeshTriangles = <<>>,
                   !.mesh.mMeshVelocities =
                      IF "mMeshVelocities" \in mNull THEN @ ELSE <<>>], junk)

SndEarly ==
  \/ mUsing \cap {"drops", "bubbles", "floats", "tracers"} = {}
  \/ BLI_path_is_rel(mds.cache_directory)
  \/ "mSndParticleData" \in mNull \/ "mSndParticleVelocity" \in mNull
  \/ "mSndParticleLife" \in mNull

updateParticleStructures(files, w, junk) ==
  IF SndEarly THEN EarlyExit(w)
  ELSE ReadStructures(SndSlots, files,
         [w EXCEPT !.parts.mSndParticleData = <<>>,
                   !.parts.mSndParticleVelocity = <<>>,
                   !.parts.mSndParticleLife = <<>>], junk)

SmokeEarly ==
  \/ "smoke" \notin mUsing
  \/ BLI_path_is_rel(mds.cache_directory)

updateSmokeStructures(files, w, junk) ==
  IF SmokeEarly THEN EarlyExit(w)
  ELSE ReadStructures(SmokeSlots, files, w, junk)

NoiseEarly ==
  \/ "smoke" \notin mUsing \/ "noise" \notin mUsing
  \/ BLI_path_is_rel(mds.cache_directory)

updateNoiseStructures(files, w, junk) ==
  IF NoiseEarly THEN EarlyExit(w)
  ELSE ReadStructures(NoiseSlots, files, w, junk)

\* the files a cache directory may hold at the path of a slot: written by
\* the format of the extension, whole or damaged
ParticleCatalogue ==
  { [open |-> TRUE, magic |-> magic, n |-> n,
     hdr |-> [bytesPerElement |-> 16, elementType |-> 0], tail |-> "eof",
     closeOK |-> TRUE, payload |-> payload] :
      magic \in {"PB02", "PD01", "PB01"}, n \in {0, PARTICLE_CHUNK},
      payload \in {<<>>, Ramp(10, 4 * PARTICLE_CHUNK)} }

GridCatalogue ==
  { [open |-> TRUE, magic |-> magic, dim |-> dim, closeOK |-> TRUE,
     payload |-> Ramp(10, Cells(dim))] :
      magic \in {"MNT3", "XXXX"}, dim \in {mRes, mResNoise} }

RawCatalogue ==
  { [open |-> TRUE, tail |-> "eof", closeOK |-> TRUE, payload |-> Ramp(30, k)] :
      k \in {0, Cells(mRes), Cells(mResNoise)} }

BobjCatalogue ==
  { MeshFile(2, 2, 1, 0, 18, "eof", TRUE), MeshFile(0, 0, 0, 0, 3, "eof", TRUE),
    MeshFile(1, 2, 1, 0, 15, "eof", TRUE), MeshFile(2, 2, 1, 0, 5, "eof", TRUE) }

ObjCatalogue ==
  { [open |-> TRUE,
     lines |-> << ObjLine("v", <<1, 2, 3>>), ObjLine("vn", <<4, 5, 6>>),
                  ObjLine("f", <<1, 1, 1>>) >>],
    [open |-> TRUE,
     lines |-> << ObjLine("v", <<1, 2, 3>>), ObjLine("f", <<1, 0, 1>>) >>],
    [open |-> TRUE, lines |-> << ObjLine("vn", <<4, 5, 6>>) >>] }

MeshUniCatalogue ==
  { [open |-> TRUE, magic |-> magic, n |-> n,
     hdr |-> [bytesPerElement |-> 16, elementType |-> 0], closeOK |-> TRUE,
     payload |-> Ramp(40, 3 * n)] :
      magic \in {"MD01", "MB01"}, n \in {0, 2} }

Catalogue(slot) ==
  LET extension == Extension(slot.file)
  IN {NoFile} \cup
     CASE slot.kind = "particles" -> ParticleCatalogue
       [] slot.kind = "grid" /\ extension = <<"uni">> -> GridCatalogue
       [] slot.kind = "grid" /\ extension # <<"uni">> -> RawCatalogue
       [] slot.kind = "mesh" /\ extension = <<"gz">> -> BobjCatalogue
       [] slot.kind = "mesh" /\ extension = <<"obj">> -> ObjCatalogue
       [] slot.kind = "mesh" /\ extension = <<"uni">> -> MeshUniCatalogue
       [] OTHER -> RawCatalogue

\* one file, or none, for each slot
FileChoices(slots) ==
  {files \in [1..Len(slots) -> UNION {Catalogue(slots[i]) : i \in 1..Len(slots)}] :
     \A i \in 1..Len(slots) : files[i] \in Catalogue(slots[i])}

\* the features of the domain when the solver was constructed, and those an
\* init call switched on afterwards (their pointers are still null)
FeaturePresets ==
  { [made |-> {}, late |-> {}],
    [made |-> {"smoke"}, late |-> {}],
    [made |-> {"smoke", "heat", "noise"}, late |-> {}],
    [made |-> {"smoke", "colors"}, late |-> {}],
    [made |-> {"smoke", "noise", "fire"}, late |-> {}],
    [made |-> {"smoke"}, late |-> {"heat"}],
    [made |-> {"liquid"}, late |-> {}],
    [made |-> {"liquid", "mesh"}, late |-> {}],
    [made |-> {"liquid", "mesh", "mvel"}, late |-> {}],
    [made |-> {"liquid", "drops"}, late |-> {}],
    [made |-> {"liquid"}, late |-> {"mesh"}] }

CachePresets ==
  { DefaultCache,
    [DefaultCache EXCEPT !.cache_directory = RelativeDir],
    CacheSettings(AbsoluteDir, "FLUID_DOMAIN_FILE_UNI", "FLUID_DOMAIN_FILE_OBJECT",
                  "FLUID_DOMAIN_FILE_RAW", "FLUID_DOMAIN_FILE_RAW"),
    CacheSettings(AbsoluteDir, "FLUID_DOMAIN_FILE_OPENVDB",
                  "FLUID_DOMAIN_FILE_BIN_OBJECT", "FLUID_DOMAIN_FILE_OPENVDB",
                  "FLUID_DOMAIN_FILE_UNI") }

InitStructs ==
  /\ \E preset \in FeaturePresets : InitSolver(preset.made, preset.late)
  /\ mParts = OldParts
  /\ mMesh = OldMesh
  /\ \E cache \in CachePresets : mds = Merge(DomainFields(100), cache)
  /\ ndebug \in BOOLEAN
  /\ pre = Snapshot
  /\ py = PyInit
  /\ script = NoScript
  /\ reshape = NoContext
  /\ solverID = 0
  /\ instances = NoInstances

\* one update call: the flag is cleared first, the files are whatever the
\* cache directory holds, the result is recorded with what each file gave
UpdateStructures(op, flag, r) ==
  /\ mGrids' = r.w.grids
  /\ mParts' = r.w.parts
  /\ mMesh' = r.w.mesh
  /\ mFromFile' = [mFromFile EXCEPT ![flag] = r.fromFile]
  /\ call' = [op |-> op, flag |-> flag, exit |-> r.exit, ret |-> r.ret,
              early |-> r.early, reads |-> r.reads, result |-> r.result,
              expected |-> r.expected]
  /\ pre' = Snapshot
  /\ UNCHANGED <<mRes, mResNoise, mNull, mUsing, mds, disk, ndebug, py, script, reshape, solverID, instances>>

UpdateFlipStructures ==
  /\ call.op = "none"
  /\ \E files \in FileChoices(IF FlipEarly THEN <<>> ELSE FlipSlots),
        junk \in JunkWords :
       \E r \in {updateFlipStructures(files, Snapshot, junk)} :
         UpdateStructures("updateFlipStructures", "mFlipFromFile", r)

UpdateMeshStructures ==
  /\ call.op = "none"
  /\ \E files \in FileChoices(IF MeshEarly THEN <<>> ELSE MeshSlots),
        junk \in JunkWords :
       \E r \in {updateMeshStructures(files, Snapshot, junk)} :
         UpdateStructures("updateMeshStructures", "mMeshFromFile", r)

UpdateParticleStructures ==
  /\ call.op = "none"
  /\ \E files \in FileChoices(IF SndEarly THEN <<>> ELSE SndSlots),
        junk \in JunkWords :
       \E r \in {updateParticleStructures(files, Snapshot, junk)} :
         UpdateStructures("updateParticleStructures", "mParticlesFromFile", r)

UpdateSmokeStructures ==
  /\ call.op = "none"
  /\ \E files \in FileChoices(IF SmokeEarly THEN <<>> ELSE SmokeSlots),
        junk \in JunkWords :
       \E r \in {updateSmokeStructures(files, Snapshot, junk)} :
         UpdateStructures("updateSmokeStructures", "mSmokeFromFile", r)

UpdateNoiseStructures ==
  /\ call.op = "none"
  /\ \E files \in FileChoices(IF NoiseEarly THEN <<>> ELSE NoiseSlots),
        junk \in JunkWords :
       \E r \in {updateNoiseStructures(files, Snapshot, junk)} :
         UpdateStructures("updateNoiseStructures", "mNoiseFromFile", r)

NextStructs ==
  \/ UpdateFlipStructures
  \/ UpdateMeshStructures
  \/ UpdateParticleStructures
  \/ UpdateSmokeStructures
  \/ UpdateNoiseStructures

SpecStructs == InitStructs /\ [][NextStructs]_vars

(***************************************************************************)
(* The configuration file of a frame: writeConfiguration, readConfiguration.*)
(***************************************************************************)
Item(field, n) == [field |-> field, n |-> n]

\* the gzwrite calls of writeConfiguration: source field and number of words
WriteLayout ==
  << Item("active_fields", 1), Item("res", 3), Item("dx", 1), Item("dt", 1),
     Item("p0", 3), Item("p1", 3), Item("dp0", 3), Item("shift", 3),
     Item("obj_shift_f", 3), Item("obmat", 16), Item("base_res", 3),
     Item("res_min", 3), Item("res_max", 3), Item("active_color", 3) >>

ReadLayoutWrong ==
  << Item("active_fields", 1), Item("res", 3), Item("dx", 1), Item("dummy", 1),
     Item("p1", 3), Item("p0", 3), Item("dp0", 3), Item("shift", 3),
     Item("obj_shift_f", 3), Item("obmat", 16), Item("base_res", 3),
     Item("res_min", 3), Item("res_max", 3), Item("active_color", 3) >>

\* the gzread calls of readConfiguration: destination and number of words;
\* the timestep goes into the local variable dummy
ReadLayout ==
  << Item("active_fields", 1), Item("res", 3), Item("dx", 1), Item("dummy", 1),
     Item("p0", 3), Item("p1", 3), Item("dp0", 3), Item("shift", 3),
     Item("obj_shift_f", 3), Item("obmat", 16), Item("base_res", 3),
     Item("res_min", 3), Item("res_max", 3), Item("active_color", 3) >>

RECURSIVE WriteFields(_, _, _)
WriteFields(layout, i, d) ==
  IF i > Len(layout) THEN <<>>
  ELSE SubSeq(d[layout[i].field], 1, layout[i].n) \o WriteFields(layout, i + 1, d)

\* the successive gzread calls, none of them checked: each stores what the
\* stream still has at the destination
RECURSIVE ReadFields(_, _, _, _, _)
ReadFields(layout, i, stream, pos, d) ==
  IF i > Len(layout) THEN d
  ELSE The({The({ReadFields(layout, i + 1, stream, next, read) :
                    next \in {pos + Len(data)},
                    read \in {[d EXCEPT ![layout[i].field] = Store(@, data)]}}) :
              data \in {GzData(stream, pos, layout[i].n)}})

\* where a write that gzclose reports as failed may have stopped
WriteCuts == {0, 5}

\* hasConfig: the configuration file of the frame exists
hasConfig(framenr) == BLI_exists(disk[framenr])

writeConfiguration(framenr, openOK, closeOK, cut) ==
  LET stream == WriteFields(WriteLayout, 1, mds)
      file == [open |-> TRUE, written |-> mds,
               stream |-> IF closeOK THEN stream ELSE SubSeq(stream, 1, cut)]
  IN IF ~openOK THEN [exit |-> "return", ret |-> FALSE, disk |-> disk]
     ELSE [exit |-> "return", ret |-> closeOK,
           disk |-> [disk EXCEPT ![framenr] = file]]

readConfigurationWrong(framenr, openOK, closeOK) ==
  LET f == disk[framenr]
      domain(read) == [k \in DOMAIN mds |->
                         IF k = "total_cells" THEN mds.total_cells ELSE read[k]]
  IN IF ~hasConfig(framenr) THEN [exit |-> "return", ret |-> FALSE, mds |-> mds]
     ELSE IF ~openOK THEN [exit |-> "return", ret |-> FALSE, mds |-> mds]
     ELSE The({[exit |-> "return", ret |-> closeOK, mds |-> domain(read)] :
                 read \in {ReadFields(ReadLayout, 1, f.stream, 0,
                                      Merge(mds, [dummy |-> <<0>>]))}})

readConfiguration(framenr, openOK, closeOK) ==
  LET f == disk[framenr]
      domain(read) == [k \in DOMAIN mds |->
                         IF k = "total_cells"
                         THEN read.res[1] * read.res[2] * read.res[3]
                         ELSE read[k]]
  IN IF ~hasConfig(framenr) THEN [exit |-> "return", ret |-> FALSE, mds |-> mds]
     ELSE IF ~openOK THEN [exit |-> "return", ret |-> FALSE, mds |-> mds]
     ELSE The({[exit |-> "return", ret |-> closeOK, mds |-> domain(read)] :
                 read \in {ReadFields(ReadLayout, 1, f.stream, 0,
                                      Merge(mds, [dummy |-> <<0>>]))}})

\* the values the host gives the domain between two calls
DomainValues == {DomainFields(100), DomainFields(200)}

SetDomain ==
  /\ call.nr < MaxCalls
  /\ \E d \in DomainValues : mds' = Merge(mds, d)
  /\ mds' # mds
  /\ call' = [op |-> "setDomain", before |-> mds, nr |-> call.nr + 1]
  /\ UNCHANGED <<pre, mRes, mResNoise, mNull, mGrids, mParts, mMesh, mUsing,
                 mFromFile, disk, ndebug, py, script, reshape, solverID, instances>>

WriteConfiguration ==
  /\ call.nr < MaxCalls
  /\ \E framenr \in Frames, openOK \in BOOLEAN, closeOK \in BOOLEAN,
        cut \in WriteCuts :
       \E r \in {writeConfiguration(framenr, openOK, closeOK, cut)} :
          /\ disk' = r.disk
          /\ call' = [op |-> "writeConfiguration", framenr |-> framenr,
                      exit |-> r.exit, ret |-> r.ret, before |-> mds,
                      nr |-> call.nr + 1]
  /\ UNCHANGED <<pre, mRes, mResNoise, mNull, mGrids, mParts, mMesh, mUsing,
                 mFromFile, mds, ndebug, py, script, reshape, solverID, instances>>

ReadConfiguration ==
  /\ call.nr < MaxCalls
  /\ \E framenr \in Frames, openOK \in BOOLEAN, closeOK \in BOOLEAN :
       \E r \in {readConfiguration(framenr, openOK, closeOK)} :
          /\ mds' = r.mds
          /\ call' = [op |-> "readConfiguration", framenr |-> framenr,
                      exit |-> r.exit, ret |-> r.ret, before |-> mds,
                      file |-> disk[framenr], nr |-> call.nr + 1]
  /\ UNCHANGED <<pre, mRes, mResNoise, mNull, mGrids, mParts, mMesh, mUsing,
                 mFromFile, disk, ndebug, py, script, reshape, solverID, instances>>

NextConfig ==
  \/ SetDomain
  \/ WriteConfiguration
  \/ ReadConfiguration

SpecConfig == Init /\ [][NextConfig]_vars

(***************************************************************************)
(* Properties of the readers.                                              *)
(***************************************************************************)
\* the call returned v (it did not end in a crash or an exception)
Returned(v) == call.exit = "return" /\ call.ret = v

GridCall == call.op = "updateGridFromUni"

ParticleCall == call.op = "updateParticlesFromUni"

\* C1: when the dimensions in the header of the file differ from the expected
\* resolution (the noise resolution for a noise grid), updateGridFromUni
\* returns false and no element of the destination grid is modified.
C1_DimMismatchRejected ==
  (GridCall /\ call.file.open /\ call.file.dim # GridRes(call.grid))
    => (Returned(FALSE) /\ mGrids = pre.grids)

\* a current-format file, complete and closing cleanly, of the wrong resolution
C1_Witness ==
  /\ GridCall /\ call.file.open /\ call.file.magic = "MNT3"
  /\ call.file.dim # GridRes(call.grid)
  /\ Len(call.file.payload) = Cells(call.file.dim)
  /\ call.file.closeOK
  /\ Returned(FALSE) /\ mGrids = pre.grids

\* C2: a grid file with magic DDF2, MNT1 or MNT2 and a particle file with
\* magic PB01 are rejected (return false) whatever the rest of the file is,
\* and neither the grids nor the particle vectors are modified.
C2_DeprecatedRejected ==
  /\ (GridCall /\ call.file.open /\ call.file.magic \in {"DDF2", "MNT1", "MNT2"})
       => (Returned(FALSE) /\ mGrids = pre.grids /\ mParts = pre.parts)
  /\ (ParticleCall /\ call.file.open /\ call.file.magic = "PB01")
       => (Returned(FALSE) /\ mGrids = pre.grids /\ mParts = pre.parts)

\* a deprecated grid file that is otherwise readable: right resolution, full
\* payload, clean close
C2_Witness ==
  /\ GridCall /\ call.file.open /\ call.file.magic = "MNT2"
  /\ call.file.dim = GridRes(call.grid)
  /\ Len(call.file.payload) = Cells(call.file.dim)
  /\ call.file.closeOK
  /\ Returned(FALSE)

\* C3: updateGridFromUni returns true only for a file with the current magic
\* MNT3 whose payload was copied into the grid.
C3_OnlyCurrentMagicAccepted ==
  (GridCall /\ Returned(TRUE))
    => /\ call.file.magic = "MNT3"
       /\ mGrids[call.grid] =
            Store(pre.grids[call.grid],
                  SubSeq(call.file.payload, 1,
                         Min(Len(call.file.payload), Cells(call.file.dim))))

\* C4: for a valid MNT3 snapshot of the expected resolution, after
\* updateGridFromUni returned true the grid holds the dimX*dimY*dimZ payload
\* elements of the file, element i of the grid being element i of the payload.
C4_GridRoundTrip ==
  (/\ GridCall /\ Returned(TRUE) /\ call.file.magic = "MNT3"
   /\ call.file.dim = GridRes(call.grid)
   /\ Len(call.file.payload) >= Cells(call.file.dim))
    => /\ Len(mGrids[call.grid]) = Cells(call.file.dim)
       /\ \A i \in 1..Cells(call.file.dim) :
            mGrids[call.grid][i] = call.file.payload[i]
       /\ \A g \in GridNames \ {call.grid} : mGrids[g] = pre.grids[g]

\* a noise grid of several cells read back from a complete file
C4_Witness ==
  /\ GridCall /\ Returned(TRUE) /\ call.file.magic = "MNT3"
  /\ call.grid = "mDensityHigh"
  /\ Len(call.file.payload) = Cells(call.file.dim)
  /\ Cells(call.file.dim) > 1
  /\ mGrids[call.grid] = call.file.payload
  /\ mGrids[call.grid] # pre.grids[call.grid]

MeshCall == call.op = "updateMeshFromBobj"

\* the file holds every record its header announces
ParticleFileComplete ==
  Len(call.file.payload) >=
    call.file.n * RecWords(ParticleBranch(call.file.magic, call.isVelData))

\* C6: for every record count N >= 1, a successful updateParticlesFromUni
\* leaves the destination vector with exactly N elements, element j being
\* record j of the file; each index in [0, N) is written exactly once and no
\* index outside that range is written.
C6_ChunkedParticleRead ==
  (/\ ParticleCall /\ Returned(TRUE) /\ call.file.n >= 1
   /\ ParticleBranch(call.file.magic, call.isVelData) # "none"
   /\ ParticleFileComplete)
    => LET branch == ParticleBranch(call.file.magic, call.isVelData)
           target == ParticleTarget(branch, call.isSecondarySys)
           N == call.file.n
       IN /\ Len(mParts[target]) = N
          /\ \A j \in 0..(N - 1) :
               /\ mParts[target][j + 1] =
                    ElemOf(branch, ZeroElem(branch),
                           BufRecord(call.file.payload, j, RecWords(branch)))
               /\ Len(WritesTo(call.log, j)) = 1
          /\ \A e \in 1..Len(call.log) : call.log[e][1] \in 0..(N - 1)

\* C7: for every vertex count V, normal count M and triangle count T of a
\* complete mesh file, a successful updateMeshFromBobj yields V positions,
\* M normals and T triangles, node j holding position record j and normal
\* record j and triangle j holding index record j.
C7_ChunkedMeshRead ==
  (/\ MeshCall /\ Returned(TRUE)
   /\ call.file.stream = EncodeMesh(call.file.v, call.file.m, call.file.t, call.file.b))
    => LET f == call.file
       IN /\ Len(mMesh.mMeshNodes) = Max(f.v, f.m)
          /\ \A j \in 0..(f.v - 1) :
               mMesh.mMeshNodes[j + 1].pos = MeshVertex(f.b, j)
          /\ \A j \in 0..(f.m - 1) :
               mMesh.mMeshNodes[j + 1].normal = MeshNormal(f.v, f.b, j)
          /\ Len(mMesh.mMeshTriangles) = f.t
          /\ \A j \in 0..(f.t - 1) :
               mMesh.mMeshTriangles[j + 1].c = MeshTriangle(f.v, f.m, f.b, j)

\* C8: whenever a chunk read of updateParticlesFromUni or updateMeshFromBobj
\* delivers fewer bytes than requested (nothing, part of the chunk, or a read
\* error), the function returns false.
C8_ShortReadAborts ==
  ((ParticleCall \/ MeshCall) /\ call.exit = "return" /\ call.short)
    => Returned(FALSE)

(***************************************************************************)
(* Properties of update*Structures.                                        *)
(***************************************************************************)
StructCall ==
  call.op \in {"updateFlipStructures", "updateMeshStructures",
               "updateParticleStructures", "updateSmokeStructures",
               "updateNoiseStructures"}

\* the files the call expects for the features in use
SlotsOf(op) ==
  CASE op = "updateFlipStructures" -> FlipSlots
    [] op = "updateMeshStructures" -> MeshSlots
    [] op = "updateParticleStructures" -> SndSlots
    [] op = "updateSmokeStructures" -> SmokeSlots
    [] op = "updateNoiseStructures" -> NoiseSlots

\* a particle snapshot in the current format that announces no record
ZeroCount(p) ==
  /\ p.read /\ p.slot.kind = "particles" /\ Extension(p.slot.file) = <<"uni">>
  /\ p.f.magic # "PB01" /\ ~ParticleHeaderInvalid(p.f.hdr)
  /\ p.f.n = 0

\* the vector a particle file of the call is read into
TargetOf(p) ==
  ParticleTarget(ParticleBranch(p.f.magic, p.slot.isVelData), p.slot.isSecondarySys)

\* C5: reading a particle snapshot whose record count is zero returns true,
\* and after the enclosing updateFlipStructures or updateParticleStructures
\* call the vector it addresses is empty (unless another file of the call
\* filled that vector).
C5_ZeroRecords ==
  call.op \in {"updateFlipStructures", "updateParticleStructures"}
    => \A i \in 1..Len(call.reads) :
         LET p == call.reads[i]
         IN ZeroCount(p) =>
              /\ p.exit = "return" /\ p.ret
              /\ (/\ TargetOf(p) \in ParticleNames
                  /\ call.exit = "return"
                  /\ \A k \in 1..Len(call.reads) :
                       (call.reads[k].read /\ TargetOf(call.reads[k]) = TargetOf(p))
                         => call.reads[k].f.n = 0)
                   => mParts[TargetOf(p)] = <<>>

\* the three files of the secondary particles all announce no record: the
\* call succeeds and the vectors, filled before, are empty
C5_Witness ==
  /\ call.op = "updateParticleStructures" /\ Returned(TRUE)
  /\ Len(call.reads) = 3
  /\ \A i \in 1..3 : ZeroCount(call.reads[i])
  /\ call.reads[1].f.magic = "PB02" /\ call.reads[2].f.magic = "PD01"
  /\ pre.parts.mSndParticleData # <<>>
  /\ mParts.mSndParticleData = <<>> /\ mParts.mSndParticleVelocity = <<>>

ConfigRead == call.op = "readConfiguration"

StoredFields == {WriteLayout[i].field : i \in 1..Len(WriteLayout)}

\* the file read holds everything a successful write emitted
ConfigComplete ==
  Len(call.file.stream) = Len(WriteFields(WriteLayout, 1, call.file.written))

\* readConfiguration consumes what writeConfiguration emits: the same
\* number of items, each of the same width, in the same order
LayoutsAgree ==
  /\ Len(ReadLayout) = Len(WriteLayout)
  /\ \A i \in 1..Len(WriteLayout) :
       /\ ReadLayout[i].n = WriteLayout[i].n
       /\ \/ ReadLayout[i].field = WriteLayout[i].field
          \/ WriteLayout[i].field = "dt" /\ ReadLayout[i].field = "dummy"

\* C10 as stated: readConfiguration consumes the fields in the order and
\* with the widths writeConfiguration emits them, and a readConfiguration of
\* a file that writeConfiguration wrote for the frame leaves every stored
\* domain field, dt included, at the written value.
C10_ConfigRoundTrip ==
  /\ LayoutsAgree
  /\ (ConfigRead /\ Returned(TRUE) /\ ConfigComplete)
       => \A k \in StoredFields : mds[k] = call.file.written[k]

\* C10, amended: the same, for every stored field except dt; the stored dt
\* is consumed and discarded, the dt of the domain stays as it was.
C10_ConfigRoundTripExceptDt ==
  /\ LayoutsAgree
  /\ (ConfigRead /\ Returned(TRUE) /\ ConfigComplete)
       => /\ \A k \in StoredFields \ {"dt"} : mds[k] = call.file.written[k]
          /\ mds.dt = call.before.dt

\* a file written for one configuration is read back into a domain that
\* was changed in between: the fields return to the written values, dt
\* does not
C10_Witness ==
  /\ ConfigRead /\ Returned(TRUE) /\ ConfigComplete
  /\ call.before.obmat # call.file.written.obmat
  /\ mds.obmat = call.file.written.obmat
  /\ mds.dt # call.file.written.dt

(***************************************************************************)
(* The embedded interpreter.  Every entry of the bridge into it is         *)
(* bracketed by PyGILState_Ensure and PyGILState_Release; a thread is at   *)
(* one of these places:                                                    *)
(*   idle      outside the bridge                                          *)
(*   ensure    in PyGILState_Ensure, waiting for the lock                  *)
(*   loop      at the head of the for loop of runPythonString              *)
(*   run       in PyRun_SimpleString                                       *)
(*   import, getvar, getfunc, callobj   in callPythonFunction              *)
(*   yielded   in the interpreter, the lock handed to another thread       *)
(*   release   at PyGILState_Release                                       *)
(*   return    after it                                                    *)
(***************************************************************************)
\* the command lists the callers build
CommandLists == {<<>>, <<"a">>, <<"a", "b">>}

\* PyRun_SimpleString returns 0 on success, -1 when an error occurred
PyRunResults == {0, -1}

PySet(t, pc, frame) ==
  [py EXCEPT !.pc[t] = pc, !.frame[t] = frame]

\* the call of thread t returns: last keeps what it was and what it gave
PyReturn(t, frame) ==
  [py EXCEPT !.pc[t] = "idle", !.frame[t] = [op |-> "none"], !.last = frame]

\* the places where a thread executes interpreter code
InInterpreter == {"loop", "run", "import", "getvar", "getfunc", "callobj",
                  "release"}

\* the places between acquiring the lock and giving it back for good
InBracket == InInterpreter \cup {"yielded"}

CallRunPythonString(t) ==
  /\ ~py.aborted /\ py.pc[t] = "idle" /\ py.calls < MaxPyCalls
  /\ \E commands \in CommandLists :
       py' = [PySet(t, "ensure",
                    [op |-> "runPythonString", commands |-> commands, it |-> 1,
                     success |-> -1, results |-> <<>>, after |-> "loop",
                     at |-> "none", ret |-> "none"])
                EXCEPT !.calls = @ + 1]
  /\ UNCHANGED <<solverVars, ndebug, script, reshape, solverID, instances>>

PyGILStateEnsureWrong(t) ==
  /\ ~py.aborted /\ py.pc[t] = "ensure"
  /\ py' = [PySet(t, py.frame[t].after, py.frame[t]) EXCEPT !.gil = t]
  /\ UNCHANGED <<solverVars, ndebug, script, reshape, solverID, instances>>

\* PyGILState_Ensure: returns once the calling thread holds the lock
PyGILStateEnsure(t) ==
  /\ ~py.aborted /\ py.pc[t] = "ensure"
  /\ py.gil = 0
  /\ py' = [PySet(t, py.frame[t].after, py.frame[t]) EXCEPT !.gil = t]
  /\ UNCHANGED <<solverVars, ndebug, script, reshape, solverID, instances>>

\* "it != commands.end()"
LoopRunPythonString(t) ==
  /\ ~py.aborted /\ py.pc[t] = "loop"
  /\ py' = PySet(t, IF py.frame[t].it <= Len(py.frame[t].commands)
                    THEN "run" ELSE "release", py.frame[t])
  /\ UNCHANGED <<solverVars, ndebug, script, reshape, solverID, instances>>

\* success = PyRun_SimpleString(command.c_str()); ++it
PyRunSimpleString(t) ==
  /\ ~py.aborted /\ py.pc[t] = "run"
  /\ \E success \in PyRunResults :
       py' = PySet(t, "loop",
                   [py.frame[t] EXCEPT !.success = success, !.it = @ + 1,
                                       !.results = Append(@, success)])
  /\ UNCHANGED <<solverVars, ndebug, script, reshape, solverID, instances>>

\* the interpreter hands the lock to a thread that waits for it while it
\* runs Python code (the switch interval of its evaluation loop)
EvalSwitch(t) ==
  /\ ~py.aborted /\ py.pc[t] \in {"run", "callobj"}
  /\ py.gil = t
  /\ \E u \in Threads \ {t} : py.pc[u] \in {"ensure", "yielded"}
  /\ py' = [PySet(t, "yielded", [py.frame[t] EXCEPT !.at = py.pc[t]])
              EXCEPT !.gil = 0]
  /\ UNCHANGED <<solverVars, ndebug, script, reshape, solverID, instances>>

\* ... and takes it again to go on
EvalResume(t) ==
  /\ ~py.aborted /\ py.pc[t] = "yielded"
  /\ py.gil = 0
  /\ py' = [PySet(t, py.frame[t].at, py.frame[t]) EXCEPT !.gil = t]
  /\ UNCHANGED <<solverVars, ndebug, script, reshape, solverID, instances>>

PyGILStateRelease(t) ==
  /\ ~py.aborted /\ py.pc[t] = "release"
  /\ py' = [PySet(t, "return", py.frame[t]) EXCEPT !.gil = 0]
  /\ UNCHANGED <<solverVars, ndebug, script, reshape, solverID, instances>>

\* "assert(success == 0); return (success != -1);"
ReturnRunPythonString(t) ==
  /\ ~py.aborted /\ py.pc[t] = "return"
  /\ py.frame[t].op = "runPythonString"
  /\ py' = IF ~ndebug /\ py.frame[t].success # 0
            THEN [py EXCEPT !.aborted = TRUE]
            ELSE PyReturn(t, [py.frame[t] EXCEPT
                                !.ret = (py.frame[t].success # -1)])
  /\ UNCHANGED <<solverVars, ndebug, script, reshape, solverID, instances>>

\* an empty name returns nullptr before the lock is asked for
CallPythonFunction(t) ==
  /\ ~py.aborted /\ py.pc[t] = "idle" /\ py.calls < MaxPyCalls
  /\ \E varName \in {"", "s1"}, functionName \in {"", "frame"},
        isAttribute \in BOOLEAN :
       LET frame == [op |-> "callPythonFunction", varName |-> varName,
                     functionName |-> functionName,
                     isAttribute |-> isAttribute, after |-> "import",
                     at |-> "none", ret |-> "nullptr"]
       IN py' = [(IF varName = "" \/ functionName = ""
                  THEN PyReturn(t, frame) ELSE PySet(t, "ensure", frame))
                   EXCEPT !.calls = @ + 1]
  /\ UNCHANGED <<solverVars, ndebug, script, reshape, solverID, instances>>

\* main = PyImport_ImportModule("__main__"); if (!main) { release; return }
PyImportModule(t) ==
  /\ ~py.aborted /\ py.pc[t] = "import"
  /\ \E main \in {"nullptr", "main"} :
       py' = PySet(t, IF main = "nullptr" THEN "release" ELSE "getvar",
                   py.frame[t])
  /\ UNCHANGED <<solverVars, ndebug, script, reshape, solverID, instances>>

\* var = PyObject_GetAttrString(main, varName); if (!var) { release; return }
GetVar(t) ==
  /\ ~py.aborted /\ py.pc[t] = "getvar"
  /\ \E var \in {"nullptr", "var"} :
       py' = PySet(t, IF var = "nullptr" THEN "release" ELSE "getfunc",
                   py.frame[t])
  /\ UNCHANGED <<solverVars, ndebug, script, reshape, solverID, instances>>

\* func = PyObject_GetAttrString(var, functionName); if (!func) { release;
\* return }; the attribute itself is the result when isAttribute
GetFunc(t) ==
  /\ ~py.aborted /\ py.pc[t] = "getfunc"
  /\ \E func \in {"nullptr", "func"} :
       py' = IF func = "nullptr" THEN PySet(t, "release", py.frame[t])
             ELSE IF ~py.frame[t].isAttribute
             THEN PySet(t, "callobj", py.frame[t])
             ELSE PySet(t, "release", [py.frame[t] EXCEPT !.ret = func])
  /\ UNCHANGED <<solverVars, ndebug, script, reshape, solverID, instances>>

\* returnedValue = PyObject_CallObject(func, nullptr)
CallObject(t) ==
  /\ ~py.aborted /\ py.pc[t] = "callobj"
  /\ \E returnedValue \in {"nullptr", "value"} :
       py' = PySet(t, "release", [py.frame[t] EXCEPT !.ret = returnedValue])
  /\ UNCHANGED <<solverVars, ndebug, script, reshape, solverID, instances>>

ReturnCallPythonFunction(t) ==
  /\ ~py.aborted /\ py.pc[t] = "return"
  /\ py.frame[t].op = "callPythonFunction"
  /\ py' = PyReturn(t, py.frame[t])
  /\ UNCHANGED <<solverVars, ndebug, script, reshape, solverID, instances>>

\* the solver of either build, called from several threads
InitPy ==
  /\ InitSolver(LiquidFeatures, {})
  /\ mParts = OldParts
  /\ mMesh = NoMesh
  /\ mds = Merge(DomainFields(100), DefaultCache)
  /\ ndebug \in BOOLEAN
  /\ pre = Snapshot
  /\ py = PyInit
  /\ script = NoScript
  /\ reshape = NoContext
  /\ solverID = 0
  /\ instances = NoInstances

NextPy ==
  \E t \in Threads :
    \/ CallRunPythonString(t)
    \/ CallPythonFunction(t)
    \/ PyGILStateEnsure(t)
    \/ LoopRunPythonString(t)
    \/ PyRunSimpleString(t)
    \/ EvalSwitch(t)
    \/ EvalResume(t)
    \/ PyImportModule(t)
    \/ GetVar(t)
    \/ GetFunc(t)
    \/ CallObject(t)
    \/ PyGILStateRelease(t)
    \/ ReturnRunPythonString(t)
    \/ ReturnCallPythonFunction(t)

SpecPy == InitPy /\ [][NextPy]_vars

\* C11 (as stated): the calls of the bridge are serialized: under any
\* interleaving of the threads, no thread is inside its bracket of
\* PyGILState_Ensure and PyGILState_Release while another thread is inside
\* its own, so the commands of two calls are never interleaved
C11_CallsNotInterleaved ==
  \A t, u \in Threads :
    t # u => ~(py.pc[t] \in InBracket /\ py.pc[u] \in InBracket)

\* C11 (amended): a thread executes interpreter code only while it holds
\* the lock, so at any moment at most one thread executes a script command
\* or a lookup; runPythonString has executed its commands in list order,
\* one result for each command before its iterator, between acquiring the
\* lock and releasing it for good
C11_OneThreadInInterpreter ==
  /\ \A t \in Threads : py.pc[t] \in InInterpreter => py.gil = t
  /\ \A t \in Threads :
       py.frame[t].op = "runPythonString" =>
         /\ Len(py.frame[t].results) = py.frame[t].it - 1
         /\ py.frame[t].it <= Len(py.frame[t].commands) + 1
         /\ py.pc[t] = "return" =>
              Len(py.frame[t].results) = Len(py.frame[t].commands)
         /\ py.pc[t] = "ensure" => py.frame[t].results = <<>>

\* a thread is in the middle of its commands while another thread waits
C11_Witness ==
  \E t, u \in Threads :
    /\ py.pc[t] = "run" /\ py.frame[t].it = 2
    /\ py.pc[u] = "ensure"

(***************************************************************************)
(* Script templates.  A string is the sequence of its characters; a        *)
(* variable of a template is written $KEY$.                                *)
(***************************************************************************)
Alphabet == {"$", "I", "D", "x", "\n"}

RECURSIVE Strings(_)
Strings(n) ==
  IF n = 0 THEN {<<>>}
  ELSE Strings(n - 1) \cup
       {Append(s, c) : s \in {x \in Strings(n - 1) : Len(x) = n - 1}, c \in Alphabet}

Digit(k) == <<"0", "1", "2", "3", "4", "5", "6", "7", "8", "9">>[k + 1]

\* "ss << mCurrentID": the decimal digits of a positive int
RECURSIVE to_string(_)
to_string(n) ==
  IF n < 10 THEN <<Digit(n)>> ELSE Append(to_string(n \div 10), Digit(n % 10))

ErrorInvalidModifierData ==
  <<"E", "R", "R", "O", "R", " ", "-", " ", "I", "N", "V", "A", "L", "I", "D",
    " ", "M", "O", "D", "I", "F", "I", "E", "R", " ", "D", "A", "T", "A">>

\* the keys getRealValue knows, of those the alphabet can spell
KnownKeys == {<<"I", "D">>}

getRealValueWrong(varName, mmd, mCurrentID) ==
  IF varName = <<"I", "D">> THEN to_string(mCurrentID)
  ELSE IF mmd = "nullptr" THEN ErrorInvalidModifierData
  ELSE <<"$">> \o varName \o <<"$">>

\* the key ID, then the null check, then the chain of "else if (varName ==
\* ...)" whose last else writes nothing to ss
getRealValue(varName, mmd, mCurrentID) ==
  IF varName = <<"I", "D">> THEN to_string(mCurrentID)
  ELSE IF mmd = "nullptr" THEN ErrorInvalidModifierData
  ELSE <<>>

substrWrong(str, pos, count) == SubSeq(str, pos + 1, Min(pos + count + 1, Len(str)))

\* std::string::substr(pos, count), pos <= size()
substr(str, pos, count) == SubSeq(str, pos + 1, Min(pos + count, Len(str)))

\* the while loop of parseLine, from currPos on
RECURSIVE ParseLoop(_, _, _, _)
ParseLoop(line, mmd, mCurrentID, st) ==
  IF ~(st.currPos < Len(line)) THEN st
  ELSE
    The({ParseLoop(line, mmd, mCurrentID, next) :
           next \in
             {IF line[st.currPos + 1] = "$" /\ ~st.readingVar
              THEN [st EXCEPT
                      !.readingVar = TRUE,
                      !.start_del = st.currPos + 1,
                      !.res = @ \o substr(line, st.end_del + 1,
                                          st.currPos - st.end_del - 1),
                      !.currPos = @ + 1]
              ELSE IF line[st.currPos + 1] = "$" /\ st.readingVar
              THEN [st EXCEPT
                      !.readingVar = FALSE,
                      !.end_del = st.currPos,
                      !.res = @ \o getRealValue(
                                     substr(line, st.start_del,
                                            st.currPos - st.start_del),
                                     mmd, mCurrentID),
                      !.currPos = @ + 1]
              ELSE [st EXCEPT !.currPos = @ + 1]}})

parseLine(line, mmd, mCurrentID) ==
  IF Len(line) = 0 THEN <<>>
  ELSE The({st.res \o substr(line, st.end_del + 1, Len(line) - st.end_del) :
              st \in {ParseLoop(line, mmd, mCurrentID,
                                [res |-> <<>>, currPos |-> 0, start_del |-> 0,
                                 end_del |-> -1, readingVar |-> FALSE])}})

\* std::getline from position pos: the characters up to the next newline,
\* which is consumed, or up to the end; no line at the end of the stream
RECURSIVE getline(_, _)
getline(str, pos) ==
  IF pos >= Len(str) THEN <<>>
  ELSE LET ends == {i \in (pos + 1)..Len(str) : str[i] = "\n"}
           stop == IF ends = {} THEN Len(str) + 1
                   ELSE CHOOSE i \in ends : \A k \in ends : i <= k
       IN <<SubSeq(str, pos + 1, stop - 1)>> \o getline(str, stop)

RECURSIVE ParseLines(_, _, _)
ParseLines(lines, mmd, mCurrentID) ==
  IF lines = <<>> THEN <<>>
  ELSE parseLine(Head(lines), mmd, mCurrentID) \o <<"\n">>
       \o ParseLines(Tail(lines), mmd, mCurrentID)

parseScript(setup_string, mmd, mCurrentID) ==
  ParseLines(getline(setup_string, 0), mmd, mCurrentID)

\* the IDs of the solvers that parse
SolverIDs == {7, 12}

ParseLine ==
  /\ script.op = "none"
  /\ \E line \in Strings(MaxLine), mmd \in {"nullptr", "mmd"},
        mCurrentID \in SolverIDs :
       script' = [op |-> "parseLine", line |-> line, mmd |-> mmd,
                  mCurrentID |-> mCurrentID,
                  res |-> parseLine(line, mmd, mCurrentID)]
  /\ UNCHANGED <<solverVars, ndebug, py, reshape, solverID, instances>>

ParseScript ==
  /\ script.op = "none"
  /\ \E setup_string \in Strings(MaxLine), mmd \in {"nullptr", "mmd"},
        mCurrentID \in SolverIDs :
       script' = [op |-> "parseScript", line |-> setup_string, mmd |-> mmd,
                  mCurrentID |-> mCurrentID,
                  res |-> parseScript(setup_string, mmd, mCurrentID)]
  /\ UNCHANGED <<solverVars, ndebug, py, reshape, solverID, instances>>

NextParse ==
  \/ ParseLine
  \/ ParseScript

\* one solver, its build without assertions
InitParse == InitPy /\ ndebug = TRUE

SpecParse == InitParse /\ [][NextParse]_vars

(***************************************************************************)
(* Properties of the script templates.                                     *)
(***************************************************************************)
\* the positions of character c in str, ascending
Positions(str, c) ==
  LET at == {i \in 1..Len(str) : str[i] = c}
      RECURSIVE Sorted(_)
      Sorted(S) == IF S = {} THEN <<>>
                   ELSE LET m == CHOOSE i \in S : \A k \in S : i <= k
                        IN <<m>> \o Sorted(S \ {m})
  IN Sorted(at)

\* piece k (0-based) of str cut at the positions ps: the text after cut k
\* and before cut k + 1
Piece(str, ps, k) ==
  SubSeq(str, (IF k = 0 THEN 0 ELSE ps[k]) + 1,
         (IF k = Len(ps) THEN Len(str) + 1 ELSE ps[k + 1]) - 1)

Balanced(line) == Len(Positions(line, "$")) % 2 = 0

\* the keys of a line: the pieces between an opening and its closing '$'
KeysOf(line) ==
  LET ps == Positions(line, "$")
  IN {Piece(line, ps, k) : k \in {j \in 0..Len(ps) : j % 2 = 1 /\ j < Len(ps)}}

RECURSIVE Concat(_)
Concat(ss) == IF ss = <<>> THEN <<>> ELSE Head(ss) \o Concat(Tail(ss))

\* the line with each closed $KEY$ replaced by values[KEY]; what follows an
\* unmatched '$' stays as it is, the '$' included
Substituted(line, values) ==
  LET ps == Positions(line, "$")
      closed == IF Len(ps) % 2 = 0 THEN Len(ps) ELSE Len(ps) - 1
  IN Concat([k \in 1..(closed + 1) |->
               IF k % 2 = 1 THEN Piece(line, ps, k - 1)
               ELSE values[Piece(line, ps, k - 1)]])
     \o (IF closed = Len(ps) THEN <<>>
         ELSE SubSeq(line, ps[Len(ps)], Len(line)))

\* the lines of a script: the pieces between its newlines, and the text
\* after the last newline when there is any
LinesOf(str) ==
  LET ps == Positions(str, "\n")
      n == IF Piece(str, ps, Len(ps)) = <<>> THEN Len(ps) ELSE Len(ps) + 1
  IN [k \in 1..n |-> Piece(str, ps, k - 1)]

\* unknown keys give nothing, the key ID gives the digits of the solver's ID
ValuesUnknownEmpty(line) ==
  [key \in KeysOf(line) |->
     IF key = <<"I", "D">> THEN to_string(script.mCurrentID) ELSE <<>>]

ValuesOf(line) ==
  [key \in KeysOf(line) |-> getRealValue(key, script.mmd, script.mCurrentID)]

HasUnknownKey(line) == KeysOf(line) \ KnownKeys # {}

\* C12: with a modifier, a line (of balanced delimiters) that has a key
\* getRealValue does not know comes out of parseLine with each such $KEY$
\* replaced by nothing and all the text around it kept, the rest of the line
\* parsed as usual; parseScript goes on with the lines that follow
C12_UnknownKeyEmpty ==
  /\ (script.op = "parseLine" /\ script.mmd # "nullptr"
      /\ Balanced(script.line) /\ HasUnknownKey(script.line))
     => script.res = Substituted(script.line, ValuesUnknownEmpty(script.line))
  /\ (script.op = "parseScript" /\ script.mmd # "nullptr"
      /\ (\A i \in DOMAIN LinesOf(script.line) :
            Balanced(LinesOf(script.line)[i]))
      /\ (\E i \in DOMAIN LinesOf(script.line) :
            HasUnknownKey(LinesOf(script.line)[i])))
     => script.res =
          Concat([i \in DOMAIN LinesOf(script.line) |->
                    Substituted(LinesOf(script.line)[i],
                                ValuesUnknownEmpty(LinesOf(script.line)[i]))
                    \o <<"\n">>])

\* an unknown key between two literals, and a script whose first line has
\* an unknown key and whose second line is parsed
C12_Witness ==
  \/ /\ script.op = "parseLine" /\ script.mmd = "mmd"
     /\ script.line = <<"x", "$", "D", "$", "x">>
     /\ script.res = <<"x", "x">>
  \/ /\ script.op = "parseScript" /\ script.mmd = "mmd"
     /\ script.line = <<"$", "x", "$", "\n", "D">>
     /\ script.res = <<"\n", "D", "\n">>

\* C19: a line of balanced delimiters comes out of parseLine as its
\* literal pieces, each once and in order, with getRealValue of the key in
\* the place of each $KEY$; a line without '$' is unchanged, the empty line
\* gives the empty string; parseScript gives the parsed lines in order, a
\* newline after each
C19_BalancedLine ==
  /\ (script.op = "parseLine" /\ Balanced(script.line))
     => /\ script.res = Substituted(script.line, ValuesOf(script.line))
        /\ Positions(script.line, "$") = <<>> => script.res = script.line
  /\ (script.op = "parseScript"
      /\ (\A i \in DOMAIN LinesOf(script.line) :
            Balanced(LinesOf(script.line)[i])))
     => script.res =
          Concat([i \in DOMAIN LinesOf(script.line) |->
                    Substituted(LinesOf(script.line)[i],
                                ValuesOf(LinesOf(script.line)[i]))
                    \o <<"\n">>])

C19_Witness ==
  \/ /\ script.op = "parseLine" /\ script.mCurrentID = 12
     /\ script.line = <<"x", "$", "I", "D", "$">>
     /\ script.res = <<"x", "1", "2">>
  \/ /\ script.op = "parseScript"
     /\ script.line = <<"x", "\n", "\n", "D">>
     /\ script.res = <<"x", "\n", "\n", "D", "\n">>

\* C20: whatever the line, an unmatched '$' included, every character
\* outside a closed $...$ pair is in the output of parseLine exactly once
\* and in its place
C20_NoDuplicateLiteral ==
  script.op = "parseLine"
    => script.res = Substituted(script.line, ValuesOf(script.line))

(***************************************************************************)
(* The readers called by file name: update*FromFile, updateGridFromRaw.    *)
(***************************************************************************)
\* raw dumps of every length up to one cell more than the largest grid
RawFiles ==
  [open : {TRUE}, tail : {"eof", "error"}, closeOK : BOOLEAN,
   payload : {Ramp(30, k) : k \in 0..(MaxRes * MaxRes + 1)}]

\* paths with each extension the readers know, with others, with none, and
\* with a '.' in the directory only
FileNames ==
  { <<"mesh", ".", "bobj", ".", "gz">>, <<"mesh", ".", "obj">>,
    <<"data", ".", "uni">>, <<"data", ".", "raw">>, <<"data", ".", "vdb">>,
    <<"data", ".", "uni", ".", "bak">>, <<"data", ".">>, <<"data">>,
    <<"cache", ".", "d/data">> }

InitFile ==
  /\ \E made \in {SmokeFeatures, LiquidFeatures} : InitSolver(made, {})
  /\ mParts = OldParts
  /\ mMesh = OldMesh
  /\ mds = Merge(DomainFields(100), DefaultCache)
  /\ ndebug \in BOOLEAN
  /\ pre = Snapshot
  /\ py = PyInit
  /\ script = NoScript
  /\ reshape = NoContext
  /\ solverID = 0
  /\ instances = NoInstances

UpdateFromFile(rec, r) ==
  /\ mGrids' = r.w.grids
  /\ mParts' = r.w.parts
  /\ mMesh' = r.w.mesh
  /\ call' = [c \in DOMAIN rec \cup {"exit", "ret"} |->
                IF c = "exit" THEN r.exit ELSE IF c = "ret" THEN r.ret ELSE rec[c]]
  /\ pre' = Snapshot
  /\ UNCHANGED <<mRes, mResNoise, mNull, mUsing, mFromFile, mds, disk, ndebug,
               py, script, reshape, solverID, instances>>

UpdateGridFromRaw ==
  /\ call.op = "none"
  /\ \E f \in RawFiles \cup {NoFile}, g \in {"mDensity", "mDensityHigh"} \ mNull :
       \E r \in {updateGridFromRaw(f, mGrids[g], g \in HighGrids)} :
          /\ mGrids' = [mGrids EXCEPT ![g] = r.grid]
          /\ call' = [op |-> "updateGridFromRaw", file |-> f, grid |-> g,
                      isNoise |-> (g \in HighGrids), exit |-> r.exit,
                      ret |-> r.ret]
  /\ pre' = Snapshot
  /\ UNCHANGED <<mRes, mResNoise, mNull, mParts, mMesh, mUsing, mFromFile,
               mds, disk, ndebug, py, script, reshape, solverID, instances>>

UpdateMeshFromFile ==
  /\ call.op = "none"
  /\ "mMeshNodes" \notin mNull
  /\ \E filename \in FileNames, junk \in JunkWords :
       \E f \in Catalogue([kind |-> "mesh", file |-> filename]) :
         \E r \in {updateMeshFromFile(filename, f, Snapshot, junk)} :
           UpdateFromFile([op |-> "updateMeshFromFile", filename |-> filename,
                           file |-> f, junk |-> junk], r)

UpdateParticlesFromFile ==
  /\ call.op = "none"
  /\ "mFlipParticleData" \notin mNull
  /\ \E filename \in FileNames, junk \in JunkWords,
        isSecondarySys \in BOOLEAN, isVelData \in BOOLEAN :
       \E f \in Catalogue([kind |-> "particles", file |-> filename]) :
         \E r \in {updateParticlesFromFile(filename, f, Snapshot,
                                           isSecondarySys, isVelData, junk)} :
           UpdateFromFile([op |-> "updateParticlesFromFile",
                           filename |-> filename, file |-> f, junk |-> junk,
                           isSecondarySys |-> isSecondarySys,
                           isVelData |-> isVelData], r)

UpdateGridFromFile ==
  /\ call.op = "none"
  /\ \E filename \in FileNames, g \in {"mDensity", "mDensityHigh"} :
       \E f \in Catalogue([kind |-> "grid", file |-> filename]) :
         \E r \in {updateGridFromFile(filename, f, Snapshot, g, g \in HighGrids)} :
           UpdateFromFile([op |-> "updateGridFromFile", filename |-> filename,
                           file |-> f, grid |-> g,
                           isNoise |-> (g \in HighGrids)], r)

NextFile ==
  \/ UpdateGridFromRaw
  \/ UpdateMeshFromFile
  \/ UpdateParticlesFromFile
  \/ UpdateGridFromFile

SpecFile == InitFile /\ [][NextFile]_vars

(***************************************************************************)
(* Properties of the readers called by file name.                          *)
(***************************************************************************)
\* C13: updateGridFromRaw returns true only when exactly the expected number
\* of bytes (the cells of the resolution, of the noise resolution when
\* isNoise) was read into the grid.
C13_RawSizeValidated ==
  (call.op = "updateGridFromRaw" /\ call.exit = "return" /\ call.ret) =>
    LET expected == Cells(IF call.isNoise THEN mResNoise ELSE mRes)
    IN /\ GzRet(call.file.payload, call.file.tail, 0, expected) = expected
       /\ mGrids[call.grid] = SubSeq(call.file.payload, 1, expected)

\* the text after the last '.' of fname is e
HasExtension(fname, e) ==
  \E i \in 1..Len(fname) :
     /\ fname[i] = "."
     /\ \A k \in (i + 1)..Len(fname) : fname[k] # "."
     /\ SubSeq(fname, i + 1, Len(fname)) = <<e>>

\* the call returned false and no destination changed
Rejected == call.exit = "return" /\ ~call.ret /\ Snapshot = pre

\* the call did what the reader r did, on the destination of the reader only
DispatchedTo(r, now, before) ==
  /\ call.exit = r.exit
  /\ call.ret = r.ret
  /\ now = before

\* C14: the readers are chosen by the text after the last '.' of the file
\* name alone: gz, obj and uni for a mesh, uni for particles, uni and raw
\* for a grid; every other extension and a name without '.' returns false
\* and leaves every destination as it was.
C14_ExtensionDispatch ==
  /\ call.op = "updateMeshFromFile" =>
       IF HasExtension(call.filename, "gz")
       THEN \A r \in {updateMeshFromBobj(call.file, pre.mesh, call.junk)} :
               DispatchedTo(r, Snapshot, [pre EXCEPT !.mesh = r.mesh])
       ELSE IF HasExtension(call.filename, "obj")
       THEN \A r \in {updateMeshFromObj(call.file, pre.mesh, call.junk)} :
               DispatchedTo(r, Snapshot, [pre EXCEPT !.mesh = r.mesh])
       ELSE IF HasExtension(call.filename, "uni")
       THEN \A r \in {updateMeshFromUni(call.file, pre.mesh, call.junk)} :
               DispatchedTo(r, Snapshot, [pre EXCEPT !.mesh = r.mesh])
       ELSE Rejected
  /\ call.op = "updateParticlesFromFile" =>
       IF HasExtension(call.filename, "uni")
       THEN \A r \in {updateParticlesFromUni(call.file, pre.parts,
                        call.isSecondarySys, call.isVelData, call.junk)} :
               DispatchedTo(r, Snapshot, [pre EXCEPT !.parts = r.parts])
       ELSE Rejected
  /\ (call.op = "updateGridFromFile" /\ call.grid \notin mNull) =>
       IF HasExtension(call.filename, "uni")
       THEN \A r \in {updateGridFromUni(call.file, pre.grids[call.grid],
                                        call.isNoise)} :
               DispatchedTo(r, Snapshot, [pre EXCEPT !.grids[call.grid] = r.grid])
       ELSE IF HasExtension(call.filename, "raw")
       THEN \A r \in {updateGridFromRaw(call.file, pre.grids[call.grid],
                                        call.isNoise)} :
               DispatchedTo(r, Snapshot, [pre EXCEPT !.grids[call.grid] = r.grid])
       ELSE Rejected

\* a mesh file named *.bobj.gz was read by the binary reader, a *.uni one by
\* the uni reader, or a name with another extension was turned down
C14_Witness ==
  /\ call.op = "updateMeshFromFile"
  /\ HasExtension(call.filename, "uni")
  /\ call.ret
  /\ mMesh # pre.mesh

(***************************************************************************)
(* Properties of the particle variants.                                    *)
(***************************************************************************)
\* the collection the claim gives to a variant: data for PB02, velocity for
\* PD01 with isVelData, life for PD01 without, of the system addressed
SelectedCollection(magic, isSecondarySys, isVelData) ==
  LET sys == IF isSecondarySys THEN "mSnd" ELSE "mFlip"
  IN IF magic = "PB02" THEN sys \o "ParticleData"
     ELSE IF isVelData THEN sys \o "ParticleVelocity"
     ELSE sys \o "ParticleLife"

\* C15: a particle file that is read (PB02 or PD01, at least one particle)
\* fills exactly one collection: data for PB02, velocity for PD01 with
\* isVelData, life for PD01 without, of the secondary system iff
\* isSecondarySys; that collection exists and no other one changes.
C15_OneDestination ==
  ( /\ call.op = "updateParticlesFromUni"
    /\ call.file.open
    /\ call.file.magic \in {"PB02", "PD01"}
    /\ ~ParticleHeaderInvalid(call.file.hdr)
    /\ call.file.n > 0 ) =>
    \A sel \in {SelectedCollection(call.file.magic, call.isSecondarySys,
                                   call.isVelData)} :
       /\ sel \in ParticleNames \ mNull
       /\ call.exit = "return"
       /\ Len(mParts[sel]) = call.file.n
       /\ \A p \in ParticleNames \ {sel} : mParts[p] = pre.parts[p]

(***************************************************************************)
(* exportSmokeScript, exportLiquidScript: the script of a domain is the    *)
(* concatenation of the fragments its flags select, parsed and written.    *)
(***************************************************************************)
\* a fragment of the script library, by its name: one line of text
Fragment(name) == <<name, "\n">>

RECURSIVE Fragments(_)
Fragments(names) ==
  IF names = <<>> THEN <<>> ELSE Fragment(Head(names)) \o Fragments(Tail(names))

AppendIfWrong(flag, names) == names

\* if (flag) manta_script += ...;
AppendIf(flag, names) == IF flag THEN names ELSE <<>>

SmokeFlags ==
  {"noise", "heat", "colors", "fire", "obstacle", "guiding", "invel", "outflow"}

LiquidFlags ==
  {"mesh", "drops", "bubble", "floater", "tracer", "obstacle", "fractions",
   "guiding", "invel", "outflow"}

\* the fragments exportSmokeScript appends, in the order it appends them
SmokeScript(domain) ==
  LET noise == "noise" \in domain
      heat == "heat" \in domain
      colors == "colors" \in domain
      fire == "fire" \in domain
      obstacle == "obstacle" \in domain
      guiding == "guiding" \in domain
      invel == "invel" \in domain
      outflow == "outflow" \in domain
  IN <<"header_libraries", "manta_import">>
     \o <<"header_variables", "fluid_variables", "smoke_variables">>
     \o AppendIf(noise, <<"fluid_variables_noise", "smoke_variables_noise">>)
     \o AppendIf(guiding, <<"fluid_variables_guiding">>)
     \o <<"header_solvers", "fluid_solver">>
     \o AppendIf(noise, <<"fluid_solver_noise">>)
     \o AppendIf(guiding, <<"fluid_solver_guiding">>)
     \o <<"header_grids", "fluid_alloc", "smoke_alloc">>
     \o AppendIf(noise,
          <<"smoke_alloc_noise">>
          \o AppendIf(colors, <<"smoke_alloc_colors_noise">>)
          \o AppendIf(fire, <<"smoke_alloc_fire_noise">>))
     \o AppendIf(heat, <<"smoke_alloc_heat">>)
     \o AppendIf(colors, <<"smoke_alloc_colors">>)
     \o AppendIf(fire, <<"smoke_alloc_fire">>)
     \o AppendIf(guiding, <<"fluid_alloc_guiding">>)
     \o AppendIf(obstacle, <<"fluid_alloc_obstacle">>)
     \o AppendIf(invel, <<"fluid_alloc_invel">>)
     \o AppendIf(outflow, <<"fluid_alloc_outflow">>)
     \o AppendIf(noise, <<"smoke_wavelet_noise">>)
     \o <<"header_time", "fluid_time_stepping", "fluid_adapt_time_step">>
     \o <<"header_import", "fluid_file_import", "fluid_cache_helper",
          "fluid_load_data", "smoke_load_data">>
     \o AppendIf(noise, <<"smoke_load_noise">>)
     \o AppendIf(guiding, <<"fluid_load_guiding">>)
     \o <<"header_prepost", "fluid_pre_step", "fluid_post_step">>
     \o <<"header_steps", "smoke_adaptive_step", "smoke_step">>
     \o AppendIf(noise, <<"smoke_step_noise">>)
     \o <<"header_main", "smoke_standalone", "fluid_standalone">>

\* the fragments exportLiquidScript appends, in the order it appends them
LiquidScript(domain) ==
  LET mesh == "mesh" \in domain
      particles == domain \cap {"drops", "bubble", "floater", "tracer"} # {}
      obstacle == "obstacle" \in domain
      fractions == "fractions" \in domain
      guiding == "guiding" \in domain
      invel == "invel" \in domain
      outflow == "outflow" \in domain
  IN <<"header_libraries", "manta_import">>
     \o <<"header_variables", "fluid_variables", "liquid_variables">>
     \o AppendIf(mesh, <<"fluid_variables_mesh">>)
     \o AppendIf(particles,
                 <<"fluid_variables_particles", "liquid_variables_particles">>)
     \o AppendIf(guiding, <<"fluid_variables_guiding">>)
     \o <<"header_solvers", "fluid_solver">>
     \o AppendIf(mesh, <<"fluid_solver_mesh">>)
     \o AppendIf(particles, <<"fluid_solver_particles">>)
     \o AppendIf(guiding, <<"fluid_solver_guiding">>)
     \o <<"header_grids", "fluid_alloc", "liquid_alloc">>
     \o AppendIf(mesh, <<"liquid_alloc_mesh">>)
     \o AppendIf(particles, <<"liquid_alloc_particles">>)
     \o AppendIf(guiding, <<"fluid_alloc_guiding">>)
     \o AppendIf(obstacle, <<"fluid_alloc_obstacle">>)
     \o AppendIf(fractions, <<"fluid_alloc_fractions">>)
     \o AppendIf(invel, <<"fluid_alloc_invel">>)
     \o AppendIf(outflow, <<"fluid_alloc_outflow">>)
     \o <<"header_gridinit", "liquid_init_phi">>
     \o <<"header_time", "fluid_time_stepping", "fluid_adapt_time_step">>
     \o <<"header_import", "fluid_file_import", "fluid_cache_helper",
          "fluid_load_data", "liquid_load_data">>
     \o AppendIf(mesh, <<"liquid_load_mesh">>)
     \o AppendIf(particles, <<"liquid_load_particles">>)
     \o AppendIf(guiding, <<"fluid_load_guiding">>)
     \o <<"header_prepost", "fluid_pre_step", "fluid_post_step">>
     \o <<"header_steps", "liquid_adaptive_step", "liquid_step">>
     \o AppendIf(mesh, <<"liquid_step_mesh">>)
     \o AppendIf(particles, <<"liquid_step_particles">>)
     \o <<"header_main", "liquid_standalone", "fluid_standalone">>

\* std::string final_script = MANTA::parseScript(manta_script, mmd);
\* myfile << final_script;
exportSmokeScript(domain, mCurrentID) ==
  parseScript(Fragments(SmokeScript(domain)), "mmd", mCurrentID)

exportLiquidScript(domain, mCurrentID) ==
  parseScript(Fragments(LiquidScript(domain)), "mmd", mCurrentID)

ExportSmokeScript ==
  /\ script.op = "none"
  /\ \E domain \in SUBSET SmokeFlags, id \in SolverIDs :
       \E myfile \in {exportSmokeScript(domain, id)} :
         script' = [op |-> "exportSmokeScript", domain |-> domain,
                    mCurrentID |-> id, myfile |-> myfile]
  /\ UNCHANGED <<solverVars, ndebug, py, reshape, solverID, instances>>

ExportLiquidScript ==
  /\ script.op = "none"
  /\ \E domain \in SUBSET LiquidFlags, id \in SolverIDs :
       \E myfile \in {exportLiquidScript(domain, id)} :
         script' = [op |-> "exportLiquidScript", domain |-> domain,
                    mCurrentID |-> id, myfile |-> myfile]
  /\ UNCHANGED <<solverVars, ndebug, py, reshape, solverID, instances>>

NextExport ==
  \/ ExportSmokeScript
  \/ ExportLiquidScript

SpecExport == InitParse /\ [][NextExport]_vars

(***************************************************************************)
(* Properties of the exported scripts.                                     *)
(***************************************************************************)
NotNewline(c) == c # "\n"

\* the names of the fragments in the written file, in the order of the file
Written == SelectSeq(script.myfile, NotNewline)

PlacesOf(written, name) == {k \in 1..Len(written) : written[k] = name}

Sections ==
  <<"header_libraries", "header_variables", "header_solvers", "header_grids",
    "header_time", "header_import", "header_prepost", "header_steps",
    "header_main">>

Gate(name, section, flag) == [name |-> name, section |-> section, flag |-> flag]

\* the optional fragments of a gas script: the section of each and the
\* condition under which the domain asks for it
SmokeGates ==
  LET on(flag) == flag \in script.domain
  IN { Gate("fluid_variables_noise", 2, on("noise")),
       Gate("smoke_variables_noise", 2, on("noise")),
       Gate("fluid_variables_guiding", 2, on("guiding")),
       Gate("fluid_solver_noise", 3, on("noise")),
       Gate("fluid_solver_guiding", 3, on("guiding")),
       Gate("smoke_alloc_noise", 4, on("noise")),
       Gate("smoke_alloc_colors_noise", 4, on("noise") /\ on("colors")),
       Gate("smoke_alloc_fire_noise", 4, on("noise") /\ on("fire")),
       Gate("smoke_alloc_heat", 4, on("heat")),
       Gate("smoke_alloc_colors", 4, on("colors")),
       Gate("smoke_alloc_fire", 4, on("fire")),
       Gate("fluid_alloc_guiding", 4, on("guiding")),
       Gate("fluid_alloc_obstacle", 4, on("obstacle")),
       Gate("fluid_alloc_invel", 4, on("invel")),
       Gate("fluid_alloc_outflow", 4, on("outflow")),
       Gate("smoke_wavelet_noise", 4, on("noise")),
       Gate("smoke_load_noise", 6, on("noise")),
       Gate("fluid_load_guiding", 6, on("guiding")),
       Gate("smoke_step_noise", 8, on("noise")) }

\* the optional fragments of a liquid script
LiquidGates ==
  LET on(flag) == flag \in script.domain
      particles == on("drops") \/ on("bubble") \/ on("floater") \/ on("tracer")
  IN { Gate("fluid_variables_mesh", 2, on("mesh")),
       Gate("fluid_variables_particles", 2, particles),
       Gate("liquid_variables_particles", 2, particles),
       Gate("fluid_variables_guiding", 2, on("guiding")),
       Gate("fluid_solver_mesh", 3, on("mesh")),
       Gate("fluid_solver_particles", 3, particles),
       Gate("fluid_solver_guiding", 3, on("guiding")),
       Gate("liquid_alloc_mesh", 4, on("mesh")),
       Gate("liquid_alloc_particles", 4, particles),
       Gate("fluid_alloc_guiding", 4, on("guiding")),
       Gate("fluid_alloc_obstacle", 4, on("obstacle")),
       Gate("fluid_alloc_fractions", 4, on("fractions")),
       Gate("fluid_alloc_invel", 4, on("invel")),
       Gate("fluid_alloc_outflow", 4, on("outflow")),
       Gate("liquid_load_mesh", 6, on("mesh")),
       Gate("liquid_load_particles", 6, particles),
       Gate("fluid_load_guiding", 6, on("guiding")),
       Gate("liquid_step_mesh", 8, on("mesh")),
       Gate("liquid_step_particles", 8, particles) }

\* every section header is in the file once, in the order of Sections
SectionsInOrder(written) ==
  \A at \in {[s \in 1..Len(Sections) |-> PlacesOf(written, Sections[s])]} :
     /\ \A s \in 1..Len(Sections) : Cardinality(at[s]) = 1
     /\ \A s \in 1..(Len(Sections) - 1) :
          \A a \in at[s], b \in at[s + 1] : a < b

\* the fragment of a gate is in the file exactly when its condition holds,
\* then once and inside its section
Gated(written, g) ==
  \A places \in {PlacesOf(written, g.name)} :
     /\ (places # {}) <=> g.flag
     /\ Cardinality(places) <= 1
     /\ \A k \in places :
          /\ \A a \in PlacesOf(written, Sections[g.section]) : a < k
          /\ g.section < Len(Sections) =>
               \A b \in PlacesOf(written, Sections[g.section + 1]) : k < b

\* C16: in the script exportSmokeScript and exportLiquidScript write, every
\* optional fragment is present iff its flag is set in the domain (the
\* noise-resolution colour and fire allocations iff noise is set as well),
\* and the sections come in the order libraries, variables, solvers, grids,
\* time, import, pre/post, steps, main.
C16_FlagsGateFragments ==
  /\ script.op = "exportSmokeScript" =>
       \A written \in {Written} :
          SectionsInOrder(written) /\ \A g \in SmokeGates : Gated(written, g)
  /\ script.op = "exportLiquidScript" =>
       \A written \in {Written} :
          SectionsInOrder(written) /\ \A g \in LiquidGates : Gated(written, g)

\* a gas script for a domain with noise and colours and without fire: the
\* colour grids of the noise resolution are allocated, the fire ones are not
C16_Witness ==
  /\ script.op = "exportSmokeScript"
  /\ script.domain = {"noise", "colors"}
  /\ \E k \in 1..Len(script.myfile) : script.myfile[k] = "smoke_alloc_colors_noise"
  /\ \A k \in 1..Len(script.myfile) :
       script.myfile[k] \notin {"smoke_alloc_fire_noise", "smoke_alloc_heat"}

(***************************************************************************)
(* Multires reshape context: the index maps between the grids, the faces   *)
(* of the base mesh and the ptex faces, and reshaping from vertex          *)
(* coordinates. Indices start at 0.                                        *)
(***************************************************************************)
\* corners (loops) of a base face
FaceSizes == {3, 4, 5}

\* base meshes, each face by its number of corners
RECURSIVE BaseMeshes(_)
BaseMeshes(n) ==
  IF n = 0 THEN {<<>>}
  ELSE BaseMeshes(n - 1)
         \cup {Append(m, c) : m \in {b \in BaseMeshes(n - 1) : Len(b) = n - 1},
                              c \in FaceSizes}

num_faces(mesh) == Len(mesh)

\* mpoly[face_index].totloop
totloop(mesh, face_index) == mesh[face_index + 1]

\* one ptex face for a quad, one for every corner otherwise
NumPtexFacesWrong(mesh, face_index) == totloop(mesh, face_index)

NumPtexFaces(mesh, face_index) ==
  IF totloop(mesh, face_index) = 4 THEN 1 ELSE totloop(mesh, face_index)

\* the grids of the faces before face_index: one grid for every corner
RECURSIVE GridsBefore(_, _)
GridsBefore(mesh, face_index) ==
  IF face_index = 0 THEN 0
  ELSE GridsBefore(mesh, face_index - 1) + totloop(mesh, face_index - 1)

RECURSIVE PtexFacesBefore(_, _)
PtexFacesBefore(mesh, face_index) ==
  IF face_index = 0 THEN 0
  ELSE PtexFacesBefore(mesh, face_index - 1) + NumPtexFaces(mesh, face_index - 1)

\* an array as the function of its indices, which start at 0
Array(seq) == [i \in 0..(Len(seq) - 1) |-> seq[i + 1]]

\* for every face in turn, one entry with the face for each of its corners
RECURSIVE GridToFace(_, _)
GridToFace(mesh, face_index) ==
  IF face_index = num_faces(mesh) THEN <<>>
  ELSE [corner \in 1..totloop(mesh, face_index) |-> face_index]
         \o GridToFace(mesh, face_index + 1)

\* for every face in turn, one entry for each of its ptex faces: the first
\* grid of the face, and the grids after it for the further ptex faces
RECURSIVE PtexStartGrid(_, _)
PtexStartGrid(mesh, face_index) ==
  IF face_index = num_faces(mesh) THEN <<>>
  ELSE [i \in 1..NumPtexFaces(mesh, face_index) |->
          GridsBefore(mesh, face_index) + (i - 1)]
         \o PtexStartGrid(mesh, face_index + 1)

\* the index maps of a context created for a base mesh
context_create(mesh, num_vertices) ==
  [base_mesh |-> mesh,
   num_vertices |-> num_vertices,
   num_grids |-> GridsBefore(mesh, num_faces(mesh)),
   face_start_grid_index |->
     [f \in 0..(num_faces(mesh) - 1) |-> GridsBefore(mesh, f)],
   grid_to_face_index |-> Array(GridToFace(mesh, 0)),
   ptex_start_grid_index |-> Array(PtexStartGrid(mesh, 0)),
   face_ptex_offset |->
     [f \in 0..(num_faces(mesh) - 1) |-> PtexFacesBefore(mesh, f)]]

multires_reshape_grid_to_face_index(reshape_context, grid_index) ==
  reshape_context.grid_to_face_index[grid_index]

multires_reshape_grid_to_corner(reshape_context, grid_index) ==
  grid_index
    - reshape_context.face_start_grid_index[
        multires_reshape_grid_to_face_index(reshape_context, grid_index)]

multires_reshape_is_quad_face(reshape_context, face_index) ==
  totloop(reshape_context.base_mesh, face_index) = 4

multires_reshape_grid_to_ptex_index(reshape_context, grid_index) ==
  LET face_index == multires_reshape_grid_to_face_index(reshape_context, grid_index)
      corner == multires_reshape_grid_to_corner(reshape_context, grid_index)
  IN reshape_context.face_ptex_offset[face_index]
       + (IF multires_reshape_is_quad_face(reshape_context, face_index)
          THEN 0 ELSE corner)

\* coordinates, and the value of a vertex no coordinate was assigned to
Coords == {1, 2}

Unassigned == 0

VertCoords == UNION {[0..(n - 1) -> Coords] : n \in 0..(MaxVerts + 1)}

VertcosMismatchWrong(num_vertices, num_vert_coords) ==
  num_vert_coords < num_vertices

\* the number of vertex coordinates is not the number of vertices of the
\* mesh at the reshape level
VertcosMismatch(num_vertices, num_vert_coords) ==
  num_vert_coords # num_vertices

multires_reshape_assign_final_coords_from_vertcos(reshape_context, final, vert_coords, num_vert_coords) ==
  IF VertcosMismatch(reshape_context.num_vertices, num_vert_coords)
  THEN [ret |-> FALSE, final |-> final]
  ELSE [ret |-> TRUE,
        final |-> [v \in DOMAIN final |-> vert_coords[v]]]

ContextCreate ==
  /\ reshape.op = "none"
  /\ \E mesh \in BaseMeshes(MaxFaces) \ {<<>>}, num_vertices \in 1..MaxVerts :
       reshape' = [op |-> "create",
                   ctx |-> context_create(mesh, num_vertices),
                   final |-> [v \in 0..(num_vertices - 1) |-> Unassigned]]
  /\ UNCHANGED <<solverVars, ndebug, py, script, solverID, instances>>

GridToPtexIndex ==
  /\ reshape.op = "create"
  /\ \E grid_index \in 0..(reshape.ctx.num_grids - 1) :
       reshape' = [op |-> "grid_to_ptex_index", ctx |-> reshape.ctx,
                   final |-> reshape.final, grid_index |-> grid_index,
                   ret |-> multires_reshape_grid_to_ptex_index(reshape.ctx,
                                                               grid_index)]
  /\ UNCHANGED <<solverVars, ndebug, py, script, solverID, instances>>

AssignFinalCoordsFromVertcos ==
  /\ reshape.op = "create"
  /\ \E vert_coords \in VertCoords :
       \E r \in {multires_reshape_assign_final_coords_from_vertcos(
                   reshape.ctx, reshape.final, vert_coords,
                   Cardinality(DOMAIN vert_coords))} :
         reshape' = [op |-> "assign_final_coords_from_vertcos",
                     ctx |-> reshape.ctx, before |-> reshape.final,
                     vert_coords |-> vert_coords, final |-> r.final,
                     ret |-> r.ret]
  /\ UNCHANGED <<solverVars, ndebug, py, script, solverID, instances>>

NextReshape ==
  \/ ContextCreate
  \/ GridToPtexIndex
  \/ AssignFinalCoordsFromVertcos

SpecReshape == InitParse /\ [][NextReshape]_vars

(***************************************************************************)
(* Properties of the reshape context.                                      *)
(***************************************************************************)
\* C17: multires_reshape_assign_final_coords_from_vertcos returns true only
\* if every vertex of the reshape level was assigned its coordinate, and
\* returns false whenever num_vert_coords is not the number of vertices
\* required at the reshape level.
C17_VertcosAllOrNothing ==
  reshape.op = "assign_final_coords_from_vertcos" =>
    /\ reshape.ret =>
         \A v \in 0..(reshape.ctx.num_vertices - 1) :
            /\ v \in DOMAIN reshape.vert_coords
            /\ reshape.final[v] = reshape.vert_coords[v]
    /\ Cardinality(DOMAIN reshape.vert_coords) # reshape.ctx.num_vertices =>
         ~reshape.ret /\ reshape.final = reshape.before

\* two coordinates were assigned to the two vertices of the reshape level
C17_Witness ==
  /\ reshape.op = "assign_final_coords_from_vertcos"
  /\ reshape.ctx.num_vertices = 2
  /\ reshape.ret
  /\ reshape.before = [v \in 0..1 |-> Unassigned]
  /\ reshape.final = [v \in 0..1 |-> v + 1]

\* the ptex faces whose first grid is a grid of face f
PtexFacesOf(ctx, f) ==
  {p \in DOMAIN ctx.ptex_start_grid_index :
     /\ ctx.face_start_grid_index[f] <= ctx.ptex_start_grid_index[p]
     /\ ctx.ptex_start_grid_index[p]
          < ctx.face_start_grid_index[f] + totloop(ctx.base_mesh, f)}

\* the grids of ptex face p: from its first grid up to the first grid of the
\* next ptex face
GridsOfPtex(ctx, p) ==
  {g \in 0..(ctx.num_grids - 1) :
     /\ ctx.ptex_start_grid_index[p] <= g
     /\ (p + 1) \in DOMAIN ctx.ptex_start_grid_index =>
          g < ctx.ptex_start_grid_index[p + 1]}

\* C18: the index maps of a reshape context agree: the face of a grid g
\* starts at or before g and g is one of its corners; a quad has one ptex
\* face, which starts at the first of its 4 grids; another face has one
\* ptex face per corner with one grid each; face_ptex_offset[f] is the first
\* ptex face of f; multires_reshape_grid_to_ptex_index(g) is a ptex face of
\* the face of g.
C18_IndexMapsConsistent ==
  reshape.op # "none" =>
    \A ctx \in {reshape.ctx} :
       /\ \A g \in 0..(ctx.num_grids - 1) :
            \A f \in {ctx.grid_to_face_index[g]} :
               /\ f \in DOMAIN ctx.face_start_grid_index
               /\ ctx.face_start_grid_index[f] <= g
               /\ g - ctx.face_start_grid_index[f] < totloop(ctx.base_mesh, f)
               /\ multires_reshape_grid_to_ptex_index(ctx, g) \in PtexFacesOf(ctx, f)
       /\ \A f \in DOMAIN ctx.face_start_grid_index :
            \A ps \in {PtexFacesOf(ctx, f)} :
               /\ ctx.face_ptex_offset[f] \in ps
               /\ \A p \in ps : ctx.face_ptex_offset[f] <= p
               /\ IF totloop(ctx.base_mesh, f) = 4
                  THEN /\ Cardinality(ps) = 1
                       /\ ctx.ptex_start_grid_index[ctx.face_ptex_offset[f]]
                            = ctx.face_start_grid_index[f]
                       /\ Cardinality(GridsOfPtex(ctx, ctx.face_ptex_offset[f])) = 4
                  ELSE /\ Cardinality(ps) = totloop(ctx.base_mesh, f)
                       /\ \A p \in ps : Cardinality(GridsOfPtex(ctx, p)) = 1
       /\ reshape.op = "grid_to_ptex_index" =>
            reshape.ret \in PtexFacesOf(ctx, ctx.grid_to_face_index[reshape.grid_index])

\* a quad and a triangle: the grid of the second corner of the triangle is
\* grid 5, its ptex face is ptex face 2
C18_Witness ==
  /\ reshape.op = "grid_to_ptex_index"
  /\ reshape.ctx.base_mesh = <<4, 3>>
  /\ reshape.grid_index = 5
  /\ reshape.ret = 2

(***************************************************************************)
(* Properties of the assertions of update*Structures.                      *)
(***************************************************************************)
\* the value of result after the block of file i: the reads that succeeded
ResultAfter(reads, i) == Cardinality({j \in 1..i : reads[j].ret})

\* C21: every assert(result == expected) an update*Structures call reaches
\* holds: after the block of each file that exists, the number of reads
\* that succeeded is the number of files expected so far; no call aborts.
C21_AssertsHold ==
  StructCall =>
    /\ call.exit # "abort"
    /\ \A i \in 1..Len(call.reads) :
         (call.reads[i].read /\ call.reads[i].exit = "return")
           => ResultAfter(call.reads, i) = i

(***************************************************************************)
(* Properties of the result of runPythonString.                            *)
(***************************************************************************)
\* C22: runPythonString returns true exactly when its command list is not
\* empty and every command of it ran successfully (PyRun_SimpleString gave
\* 0), not only the last one.
C22_AllCommandsSucceed ==
  py.last.op = "runPythonString" =>
    (py.last.ret <=>
       /\ py.last.commands # <<>>
       /\ \A i \in 1..Len(py.last.commands) : py.last.results[i] = 0)

(***************************************************************************)
(* Properties of the early exits of update*Structures.                     *)
(***************************************************************************)
\* the feature a call reads the cache of is in use
FeatureInUse(op) ==
  CASE op = "updateFlipStructures" -> "liquid" \in mUsing
    [] op = "updateMeshStructures" -> "mesh" \in mUsing
    [] op = "updateParticleStructures" ->
         mUsing \cap {"drops", "bubbles", "floats", "tracers"} # {}
    [] op = "updateSmokeStructures" -> "smoke" \in mUsing
    [] op = "updateNoiseStructures" -> {"smoke", "noise"} \subseteq mUsing

\* the containers a call cannot do without
RequiredContainers(op) ==
  CASE op = "updateFlipStructures" -> {"mFlipParticleData", "mFlipParticleVelocity"}
    [] op = "updateMeshStructures" -> {"mMeshNodes", "mMeshTriangles"}
    [] op = "updateParticleStructures" ->
         {"mSndParticleData", "mSndParticleVelocity", "mSndParticleLife"}
    [] OTHER -> {}

\* the containers a call clears when it has them
ClearedContainers(op) ==
  IF op = "updateMeshStructures"
  THEN {"mMeshNodes", "mMeshTriangles", "mMeshVelocities"} \ mNull
  ELSE RequiredContainers(op)

Elements(v) == {v[i] : i \in 1..Len(v)}

ContainerOf(w, c) == IF c \in MeshNames THEN w.mesh[c] ELSE w.parts[c]

\* C23: an update*Structures call that ends early (feature not in use,
\* relative cache directory, a required container null) returns false, has
\* its m*FromFile flag false and changes no container; on every other path
\* no element the flip, mesh or secondary particle containers held before
\* the call is in them after it.
C23_EarlyExitNoEffect ==
  StructCall =>
    IF \/ ~FeatureInUse(call.op)
       \/ BLI_path_is_rel(mds.cache_directory)
       \/ RequiredContainers(call.op) \cap mNull # {}
    THEN /\ call.exit = "return" /\ ~call.ret
         /\ ~mFromFile[call.flag]
         /\ Snapshot = pre
    ELSE \A c \in ClearedContainers(call.op) :
            Elements(ContainerOf(Snapshot, c)) \cap Elements(ContainerOf(pre, c)) = {}

\* a flip update of a liquid whose velocity file is missing: the particles
\* of the file are in the data container, the velocity container is empty
C23_Witness ==
  /\ call.op = "updateFlipStructures"
  /\ ~call.early
  /\ pre.parts.mFlipParticleVelocity # <<>>
  /\ mParts.mFlipParticleVelocity = <<>>
  /\ mParts.mFlipParticleData # <<>>
  /\ Len(call.reads) = 2
  /\ ~call.reads[2].exists

(***************************************************************************)
(* Properties of readConfiguration on the domain.                          *)
(***************************************************************************)
\* C24: readConfiguration returns false and leaves every field of the
\* domain as it was when the frame has no configuration file; when it reads
\* a file the dt of the domain stays as it was, and total_cells is
\* res[0] * res[1] * res[2] of the res the domain has afterwards.
C24_ReadConfigurationEffect ==
  ConfigRead =>
    /\ ~call.file.open => (call.exit = "return" /\ ~call.ret /\ mds = call.before)
    /\ mds.dt = call.before.dt
    /\ (call.ret \/ mds # call.before) =>
         mds.total_cells = mds.res[1] * mds.res[2] * mds.res[3]

\* a file written for one configuration is read into a domain with another
\* resolution and another dt: the resolution and total_cells follow the
\* file, dt does not
C24_Witness ==
  /\ ConfigRead /\ Returned(TRUE) /\ ConfigComplete
  /\ call.before.res # call.file.written.res
  /\ mds.res = call.file.written.res
  /\ mds.total_cells # call.before.total_cells
  /\ call.before.dt # call.file.written.dt
  /\ mds.dt = call.before.dt

(***************************************************************************)
(* Construction of a solver and the init functions that can be called on   *)
(* it afterwards.  The feature flags are the names in mUsing, the pointer  *)
(* members that are nullptr are the names in mNull.                        *)
(***************************************************************************)
\* a domain has at most MaxFlags of its optional flags set
MaxFlags == 3

\* init calls on a solver after its construction
MaxInits == 1

\* mmd->domain->type: FLUID_DOMAIN_TYPE_LIQUID or FLUID_DOMAIN_TYPE_GAS
DomainTypes == {"liquid", "smoke"}

SmokeOnlyFlags == {"noise", "heat", "fire", "colors"}

LiquidOnlyFlags ==
  {"fractions", "mesh", "mvel", "drops", "bubbles", "floats", "tracers"}

CommonFlags == {"guiding", "obstacle", "invel", "outflow"}

OptionalFlags == SmokeOnlyFlags \cup LiquidOnlyFlags \cup CommonFlags

DomainFlagSets == {f \in SUBSET OptionalFlags : Cardinality(f) <= MaxFlags}

\* the members the init functions test that are not containers of the solver
ExtraPointers ==
  {"mPhiIn", "mPhiObsIn", "mPhiGuideIn", "mInVelocityX", "mPhiOutIn"}

\* the mUsing* members as the constructor sets them from the domain
ConstructorFlags(type, flags) ==
  {type}
  \cup {f \in flags \cap SmokeOnlyFlags : type = "smoke"}
  \cup {f \in flags \cap LiquidOnlyFlags : type = "liquid"}
  \cup (flags \cap CommonFlags)

\* the member an init function tests for nullptr before it does anything,
\* "" when it tests none
InitPointer(fn) ==
  CASE fn = "initHeat" -> "mHeat"
    [] fn = "initFire" -> "mFuel"
    [] fn = "initFireHigh" -> "mFuelHigh"
    [] fn = "initColors" -> "mColorR"
    [] fn = "initColorsHigh" -> "mColorRHigh"
    [] fn = "initLiquid" -> "mPhiIn"
    [] fn = "initObstacle" -> "mPhiObsIn"
    [] fn = "initGuiding" -> "mPhiGuideIn"
    [] fn = "initInVelocity" -> "mInVelocityX"
    [] fn = "initOutflow" -> "mPhiOutIn"
    [] fn = "initLiquidSndParts" -> "mSndParticleData"
    [] OTHER -> ""

\* the mUsing* member an init function sets to true, "" when it sets none
InitFlag(fn) ==
  CASE fn = "initHeat" -> "heat"
    [] fn \in {"initFire", "initFireHigh"} -> "fire"
    [] fn \in {"initColors", "initColorsHigh"} -> "colors"
    [] fn = "initLiquid" -> "liquid"
    [] fn \in {"initMesh", "initLiquidMesh"} -> "mesh"
    [] fn = "initObstacle" -> "obstacle"
    [] fn = "initGuiding" -> "guiding"
    [] fn = "initFractions" -> "fractions"
    [] fn = "initInVelocity" -> "invel"
    [] fn = "initOutflow" -> "outflow"
    [] fn = "initSmokeNoise" -> "noise"
    [] OTHER -> ""

\* the init function runs its script: it tests no member, or the member it
\* tests is nullptr
InitRuns(fn, null) == InitPointer(fn) = "" \/ InitPointer(fn) \in null

\* the mUsing* members after one init function
runInit(fn, using, null) ==
  IF InitRuns(fn, null) /\ InitFlag(fn) # "" THEN using \cup {InitFlag(fn)}
  ELSE using

\* the mUsing* members after a sequence of init functions
RECURSIVE runInits(_, _, _)
runInits(fns, using, null) ==
  IF fns = <<>> THEN using
  ELSE runInits(Tail(fns), runInit(Head(fns), using, null), null)

\* the functions the constructor calls for a liquid domain, in order
LiquidInits(using) ==
  <<"initDomain", "initLiquid">>
  \o AppendIf("obstacle" \in using, <<"initObstacle">>)
  \o AppendIf("invel" \in using, <<"initInVelocity">>)
  \o AppendIf("outflow" \in using, <<"initOutflow">>)
  \o AppendIf(using \cap {"drops", "bubbles", "floats", "tracers"} # {},
              <<"initSndParts", "initLiquidSndParts">>)
  \o AppendIf("mesh" \in using, <<"initMesh", "initLiquidMesh">>)
  \o AppendIf("guiding" \in using, <<"initGuiding">>)
  \o AppendIf("fractions" \in using, <<"initFractions">>)

\* the high resolution inits of fire and colours ahead of the noise inits
SmokeInitsWrong(using) ==
  <<"initDomain", "initSmoke">>
  \o AppendIf("noise" \in using /\ "fire" \in using, <<"initFireHigh">>)
  \o AppendIf("noise" \in using, <<"initNoise", "initSmokeNoise">>)

\* the functions the constructor calls for a gas domain, in order
SmokeInits(using) ==
  <<"initDomain", "initSmoke">>
  \o AppendIf("heat" \in using, <<"initHeat">>)
  \o AppendIf("fire" \in using, <<"initFire">>)
  \o AppendIf("colors" \in using, <<"initColors">>)
  \o AppendIf("obstacle" \in using, <<"initObstacle">>)
  \o AppendIf("invel" \in using, <<"initInVelocity">>)
  \o AppendIf("outflow" \in using, <<"initOutflow">>)
  \o AppendIf("guiding" \in using, <<"initGuiding">>)
  \o AppendIf("noise" \in using,
              <<"initNoise", "initSmokeNoise">>
              \o AppendIf("fire" \in using, <<"initFireHigh">>)
              \o AppendIf("colors" \in using, <<"initColorsHigh">>))

\* every function the constructor calls, in order
ConstructorCalls(using) ==
  <<"initializeMantaflow">>
  \o AppendIf("liquid" \in using, LiquidInits(using))
  \o AppendIf("smoke" \in using, SmokeInits(using))
  \o <<"updatePointers">>

\* the functions that hand a script to runPythonString
InitScripts(calls) ==
  {i \in 1..Len(calls) : calls[i] \notin {"initializeMantaflow", "updatePointers"}}

\* the members outside the containers that updatePointers sets; phiIn is
\* fetched for every solver and is nullptr when the scripts made no such
\* grid
ExtraPointersOf(using, phiIn) ==
  UNION {
    IF phiIn THEN {"mPhiIn"} ELSE {},
    IF "outflow" \in using THEN {"mPhiOutIn"} ELSE {},
    IF "obstacle" \in using THEN {"mPhiObsIn"} ELSE {},
    IF "guiding" \in using THEN {"mPhiGuideIn"} ELSE {},
    IF "invel" \in using THEN {"mInVelocityX"} ELSE {} }

\* the members that are nullptr after updatePointers
updatePointers(using, null, phiIn) ==
  (null \ (PointersOf(using) \cup ExtraPointersOf(using, phiIn)))
  \cup (IF phiIn THEN {} ELSE {"mPhiIn"})

\* a liquid has the phiIn grid, for a gas the scripts decide
PhiInGrids(using) == IF "liquid" \in using THEN {TRUE} ELSE BOOLEAN

InitFlagsModel ==
  /\ InitSolver({}, {})
  /\ mParts = OldParts
  /\ mMesh = NoMesh
  /\ mds = Merge(DomainFields(100), DefaultCache)
  /\ ndebug \in BOOLEAN
  /\ pre = Snapshot
  /\ py = PyInit
  /\ script = NoScript
  /\ reshape = NoContext
  /\ solverID = 0
  /\ instances = NoInstances

\* MANTA::MANTA(res, mmd): the flags from the domain, every pointer member
\* nullptr, the init functions, updatePointers.  failAt is the init script
\* whose commands fail in the interpreter (0: none): runPythonString asserts
\* on it, and without assertions the constructor goes on.
Construct ==
  /\ call.op = "none"
  /\ \E type \in DomainTypes, flags \in DomainFlagSets :
       \E using \in {ConstructorFlags(type, flags)} :
         \E calls \in {ConstructorCalls(using)} :
           \E failAt \in {0} \cup InitScripts(calls), phiIn \in PhiInGrids(using) :
             \E aborted \in {~ndebug /\ failAt # 0} :
               \E log \in {IF aborted THEN SubSeq(calls, 1, failAt) ELSE calls} :
                 /\ mUsing' = runInits(log, using, AllPointers \cup ExtraPointers)
                 /\ mNull' = IF aborted THEN AllPointers \cup ExtraPointers
                             ELSE updatePointers(mUsing', AllPointers \cup ExtraPointers,
                                                 phiIn)
                 /\ call' = [op |-> "MANTA", nr |-> 0,
                             exit |-> IF aborted THEN "abort" ELSE "return",
                             flags |-> using, log |-> log, failAt |-> failAt]
  /\ UNCHANGED <<pre, mRes, mResNoise, mGrids, mParts, mMesh, mFromFile, mds, disk,
                 ndebug, py, script, reshape, solverID, instances>>

\* a solver that was constructed and can take another call
Constructed ==
  /\ call.op # "none"
  /\ call.exit = "return"
  /\ call.nr < MaxInits

\* one init function called on the solver: when the member it tests is
\* nullptr it runs its script (runPythonString asserts that the commands
\* succeeded) and then sets its flag
InitCall(fn) ==
  /\ Constructed
  /\ \E ok \in BOOLEAN :
       \E aborted \in {InitRuns(fn, mNull) /\ ~ok /\ ~ndebug} :
         /\ mUsing' = IF aborted THEN mUsing ELSE runInit(fn, mUsing, mNull)
         /\ call' = [op |-> fn, nr |-> call.nr + 1,
                     exit |-> IF aborted THEN "abort" ELSE "return",
                     flags |-> {}, log |-> <<>>, failAt |-> 0]
  /\ UNCHANGED <<pre, mRes, mResNoise, mNull, mGrids, mParts, mMesh, mFromFile, mds,
                 disk, ndebug, py, script, reshape, solverID, instances>>

\* the init functions of the class
InitFunctions ==
  {"initDomain", "initNoise", "initSmoke", "initSmokeNoise", "initHeat", "initFire",
   "initFireHigh", "initColors", "initColorsHigh", "initLiquid", "initMesh",
   "initLiquidMesh", "initObstacle", "initGuiding", "initFractions",
   "initInVelocity", "initOutflow", "initSndParts", "initLiquidSndParts"}

\* updatePointers() called on the solver
UpdatePointers ==
  /\ Constructed
  /\ \E phiIn \in PhiInGrids(mUsing) :
       mNull' = updatePointers(mUsing, mNull, phiIn)
  /\ call' = [op |-> "updatePointers", nr |-> call.nr + 1, exit |-> "return",
              flags |-> {}, log |-> <<>>, failAt |-> 0]
  /\ UNCHANGED <<pre, mRes, mResNoise, mUsing, mGrids, mParts, mMesh, mFromFile, mds,
                 disk, ndebug, py, script, reshape, solverID, instances>>

NextFlags ==
  \/ Construct
  \/ \E fn \in InitFunctions : InitCall(fn)
  \/ UpdatePointers

SpecFlags == InitFlagsModel /\ [][NextFlags]_vars

\* C25: in every state of a constructed solver mUsingLiquid and mUsingSmoke
\* are not both true, each of mUsingNoise, mUsingHeat, mUsingFire,
\* mUsingColors implies mUsingSmoke, and each of mUsingFractions,
\* mUsingMesh, mUsingMVel, mUsingDrops, mUsingBubbles, mUsingFloats,
\* mUsingTracers implies mUsingLiquid.
C25_FeatureFlagInvariant ==
  call.op # "none" =>
    /\ ~({"liquid", "smoke"} \subseteq mUsing)
    /\ mUsing \cap SmokeOnlyFlags # {} => "smoke" \in mUsing
    /\ mUsing \cap LiquidOnlyFlags # {} => "liquid" \in mUsing

(***************************************************************************)
(* The order of the calls of the constructor.                              *)
(***************************************************************************)
\* the places of a function in the calls of the constructor
PlacesIn(log, fn) == {i \in 1..Len(log) : log[i] = fn}

\* the flags of the constructor one of which an optional init goes with,
\* {} for the functions every construction calls
FlagsOfInit(fn) ==
  CASE fn \in {"initSndParts", "initLiquidSndParts"} ->
         {"drops", "bubbles", "floats", "tracers"}
    [] fn \in {"initNoise", "initSmokeNoise"} -> {"noise"}
    [] fn = "initMesh" -> {"mesh"}
    [] fn \in {"initDomain", "initLiquid", "initSmoke"} -> {}
    [] OTHER -> {InitFlag(fn)}

\* C26: the constructor calls initializeMantaflow first, then initDomain
\* exactly once and before every other init function, an optional init only
\* when its flag is set, initFireHigh and initColorsHigh only after initNoise
\* and initSmokeNoise, and updatePointers last, after every init function.
C26_ConstructionOrder ==
  (call.op = "MANTA" /\ call.exit = "return") =>
    \A log \in {call.log} :
      /\ log[1] = "initializeMantaflow"
      /\ PlacesIn(log, "initDomain") = {2}
      /\ \A i \in 1..Len(log) :
           /\ log[i] \in InitFunctions \ {"initDomain"} => i > 2
           /\ (log[i] \in InitFunctions /\ FlagsOfInit(log[i]) # {}) =>
                FlagsOfInit(log[i]) \cap call.flags # {}
           /\ log[i] \in {"initFireHigh", "initColorsHigh"} =>
                /\ \E j \in PlacesIn(log, "initNoise") : j < i
                /\ \E j \in PlacesIn(log, "initSmokeNoise") : j < i
           /\ log[i] \in InitFunctions \/ i \in {1, Len(log)}
      /\ PlacesIn(log, "updatePointers") = {Len(log)}
      /\ \A f \in call.flags \ {"liquid", "smoke", "mvel"} :
           \E i \in 1..Len(log) : f \in FlagsOfInit(log[i])

\* a gas domain with noise, fire and colours: both high resolution inits run
C26_Witness ==
  /\ call.op = "MANTA" /\ call.exit = "return"
  /\ PlacesIn(call.log, "initFireHigh") # {}
  /\ PlacesIn(call.log, "initColorsHigh") # {}
  /\ call.failAt # 0

(***************************************************************************)
(* The IDs of the instances.  solverID is a std::atomic<int> of the class, *)
(* every constructor takes ++solverID as its mCurrentID.  Threads make and *)
(* delete instances side by side.                                          *)
(***************************************************************************)
\* the bits of an int (32 in the builds; small here so that the counter can
\* run through all its values)
IntBits == 3

\* constructions in one run of the process: one more than an int has values
MaxSolvers == Pow2(IntBits) + 1

INT_MAX == Pow2(IntBits - 1) - 1

INT_MIN == 0 - Pow2(IntBits - 1)

\* an int result: the value modulo 2^IntBits, in INT_MIN..INT_MAX
ToInt(v) == ((v - INT_MIN) % Pow2(IntBits)) + INT_MIN

\* the counter is left as it was
PreIncrementWrong(counter) == counter

\* ++solverID on the atomic: one read-modify-write, the result is the new
\* value of the counter
PreIncrement(counter) == ToInt(counter + 1)

\* MANTA::MANTA(...) : mCurrentID(++solverID)
BeginConstruct(t) ==
  /\ instances.pc[t] = "idle"
  /\ Len(instances.made) < MaxSolvers
  /\ solverID' = PreIncrement(solverID)
  /\ instances' = [made |-> Append(instances.made, solverID'),
                   pc |-> [instances.pc EXCEPT ![t] = "constructor"],
                   mCurrentID |-> [instances.mCurrentID EXCEPT ![t] = solverID']]
  /\ UNCHANGED <<solverVars, ndebug, py, script, reshape>>

\* the body of the constructor: the scene and its variables are named after
\* mCurrentID
EndConstruct(t) ==
  /\ instances.pc[t] = "constructor"
  /\ instances' = [instances EXCEPT !.pc[t] = "live"]
  /\ UNCHANGED <<solverVars, ndebug, py, script, reshape, solverID>>

\* MANTA::~MANTA()
Destruct(t) ==
  /\ instances.pc[t] = "live"
  /\ instances' = [instances EXCEPT !.pc[t] = "idle", !.mCurrentID[t] = 0]
  /\ UNCHANGED <<solverVars, ndebug, py, script, reshape, solverID>>

NextID ==
  \/ \E t \in Threads : BeginConstruct(t)
  \/ \E t \in Threads : EndConstruct(t)
  \/ \E t \in Threads : Destruct(t)

SpecID == InitPy /\ [][NextID]_vars

\* C27 (as stated): the mCurrentID of every instance differs from the
\* mCurrentID of every other instance the process ever constructed; the IDs
\* are handed out in strictly increasing order and the first one is 1.
C27_SolverIDsUnique ==
  \A made \in {instances.made} :
    /\ \A i, j \in 1..Len(made) : i # j => made[i] # made[j]
    /\ \A i \in 1..Len(made) - 1 : made[i] < made[i + 1]
    /\ made # <<>> => made[1] = 1

\* C27 (amended): the first INT_MAX instances get the IDs 1, 2, 3, ... in the
\* order of their constructions; the IDs of the first 2^IntBits instances
\* differ from each other, whether their owners still exist or not, and so
\* do those of the threads that are in a constructor or hold an instance at
\* the same time.
C27_SolverIDsUniqueBeforeWrap ==
  \A made \in {instances.made} :
    /\ \A i \in 1..Min(Len(made), INT_MAX) : made[i] = i
    /\ \A i, j \in 1..Min(Len(made), Pow2(IntBits)) : i # j => made[i] # made[j]
    /\ Len(made) <= Pow2(IntBits) =>
         \A t, u \in Threads :
           (t # u /\ instances.pc[t] # "idle" /\ instances.pc[u] # "idle") =>
             instances.mCurrentID[t] # instances.mCurrentID[u]

\* every thread is in a constructor at the same time, after earlier
\* instances were deleted, and the counter has reached INT_MAX
C27_Witness ==
  /\ \A t \in Threads : instances.pc[t] = "constructor"
  /\ Len(instances.made) = INT_MAX
  /\ solverID = INT_MAX
  /\ \E t \in Threads : instances.mCurrentID[t] = INT_MAX

=============================================================================
